---- MODULE Spec2Model ----
(***************************************************************************)
(* RecallFlow (RF3): the review-queue scheduler of StudySession, the exam  *)
(* pass of ExamSession and the deck / stats stores of App, as a state      *)
(* machine.  Every handler of the React components is one atomic action:   *)
(* React runs a handler to completion, applies the queued state updates in *)
(* order and re-renders before the next event is delivered.                *)
(***************************************************************************)
EXTENDS Integers, Sequences, FiniteSets, TLC

\* ------------------------------------------------------------------ bounds
MaxCards == 11      \* largest deck built by Init of the study specification
MaxEvents == 5      \* session starts, answers, deletions and timer ticks per behaviour
MaxAppCards == 2    \* largest deck built by Init of the study + exam specification
MaxBars == 1        \* most '|' characters in one text field of a card
MaxProgress == 2    \* largest streak counter of a card whose line is written or read
MaxStreak == 1      \* largest streak and statistic in the endless study session
LiveCards == 6      \* cards of the deck of the endless study session

\* ------------------------------------------------------- program constants
LongPenalty == 10   \* offset of every third consecutive miss
ShortPenalty == 2   \* offset of any other miss
EscalateEvery == 3  \* the multiple of consecutiveWrong that escalates
PowBase == 2        \* base of the correct-answer back-off

NULL == 0           \* currentPhraseId === null / activeDeckId === null
Undefined == 0      \* lastReviewedAt absent
Timestamp == 1      \* lastReviewedAt = Date.now()
TheDeck == 1        \* id of the deck the behaviours work on

\* Import progress values seeding the head card of the initial deck
\* (Importer: progress > 0 -> consecutiveCorrect, < 0 -> consecutiveWrong).
Seeds == {-5, -2, 0, 2}

VARIABLES
  view,             \* App.view
  activeDeckId,     \* App.activeDeckId
  decks,            \* App.decks : deck id -> Deck
  stats,            \* App.stats (GlobalStats)
  queue,            \* StudySession.queue (working copy)
  currentPhraseId,  \* StudySession.currentPhraseId
  cardState,        \* StudySession.cardState
  sessionStats,     \* StudySession.sessionStats
  sessionDuration,  \* StudySession.sessionDuration
  feedback,         \* StudySession.feedback
  questions,        \* ExamSession.questions (ids of the sampled Phrases, in order)
  currentIndex,     \* ExamSession.currentIndex
  step,             \* ExamSession.step
  score,            \* ExamSession.score
  isFinished,       \* ExamSession.isFinished
  results,          \* ExamSession.results
  examDuration,     \* ExamSession.sessionDuration
  sessions,         \* history: number of sessions started so far
  answered,         \* history: number of onReview events each card id has received
  deleted,          \* history: the ids of the cards deleted so far
  editorPhrases,    \* DeckEditor.phrases (local copy of the edited deck's card list)
  uuids,            \* the number of card ids uuidv4() has handed out so far
  edits,            \* history: number of imports, merges and editor saves so far
  last,             \* history: the last handler run and the state it ran in
  calls,            \* history: the calls made by the last handler, in order
  textPhrase,       \* bulk text: the card whose line the editor writes (<<>>: none)
  textLine,         \* bulk text: one line of DeckEditor.batchText / Importer.manualText
  parsedPhrase,     \* bulk text: the card built from the line (<<>>: none)
  textOp            \* bulk text: the last text operation

appVars == <<view, activeDeckId, decks, stats>>
studyVars == <<queue, currentPhraseId, cardState, sessionStats, sessionDuration, feedback>>
examVars == <<questions, currentIndex, step, score, isFinished, results, examDuration>>
histVars == <<sessions, answered, deleted>>
editorVars == <<editorPhrases, uuids, edits>>
textVars == <<textPhrase, textLine, parsedPhrase, textOp>>
vars == <<view, activeDeckId, decks, stats, queue, currentPhraseId, cardState,
          sessionStats, sessionDuration, feedback, questions, currentIndex, step, score,
          isFinished, results, examDuration, sessions, answered, deleted, editorPhrases,
          uuids, edits, last, calls, textPhrase, textLine, parsedPhrase, textOp>>

\* ------------------------------------------------------------ data helpers
Range(s) == {s[i] : i \in 1..Len(s)}

Min(a, b) == IF a < b THEN a ELSE b

Abs(x) == IF x < 0 THEN -x ELSE x

\* Array.prototype.filter(id => id !== x)
RECURSIVE FilterOut(_, _)
FilterOut(s, x) ==
  IF s = <<>> THEN <<>>
  ELSE IF Head(s) = x THEN FilterOut(Tail(s), x)
       ELSE <<Head(s)>> \o FilterOut(Tail(s), x)

\* number of occurrences of x in s
RECURSIVE Count(_, _)
Count(s, x) ==
  IF s = <<>> THEN 0
  ELSE (IF Head(s) = x THEN 1 ELSE 0) + Count(Tail(s), x)

\* 0-based index of the first occurrence of x in s, -1 when absent (indexOf)
IndexOf(s, x) ==
  IF \E i \in 1..Len(s) : s[i] = x
  THEN (CHOOSE i \in 1..Len(s) : s[i] = x /\ \A j \in 1..(i-1) : s[j] # x) - 1
  ELSE -1

\* deck.phrases.find(p => p.id === id): 1-based position, 0 when not found
FindPhrase(phrases, id) ==
  IF \E i \in 1..Len(phrases) : phrases[i].id = id
  THEN CHOOSE i \in 1..Len(phrases) : phrases[i].id = id /\ \A j \in 1..(i-1) : phrases[j].id # id
  ELSE 0

\* the Phrase with the given id (only used when FindPhrase # 0)
PhraseOf(phrases, id) == phrases[FindPhrase(phrases, id)]

\* Text fields (english) are coded as integers: 0 is the empty string, k > 0
\* is word number k in lower case and -k the same word in capitals, so that
\* english.toLowerCase().trim() is the absolute value.
Key(english) == Abs(english)

\* a Phrase as the Importer creates it from a line with the given progress;
\* the card with id i of an initial deck carries word number i
NewPhrase(id, progress) ==
  [id |-> id,
   english |-> id,
   consecutiveCorrect |-> IF progress > 0 THEN progress ELSE 0,
   consecutiveWrong |-> IF progress < 0 THEN Abs(progress) ELSE 0,
   totalReviews |-> Abs(progress),
   lastReviewedAt |-> Undefined]

\* App.handleCreateDeck: the queue is the card list's ids in order
NewDeck(id, phrases) ==
  [id |-> id,
   phrases |-> phrases,
   queue |-> [i \in 1..Len(phrases) |-> phrases[i].id],
   stats |-> [totalStudyTimeSeconds |-> 0, totalReviewCount |-> 0]]

NoFeedback == [set |-> FALSE, insertIndex |-> 0, isCorrect |-> FALSE]

Call(op, arg) == [op |-> op, arg |-> arg]

\* ---------------------------------------------------------------- App store
\* faulty variant: the write-back is dropped
updateDeckDropped(prevDecks, updatedDeck) == prevDecks

\* App.updateDeck: setDecks(prev => prev.map(d => d.id === updatedDeck.id ? updatedDeck : d))
updateDeck(prevDecks, updatedDeck) ==
  [d \in DOMAIN prevDecks |->
     IF prevDecks[d].id = updatedDeck.id THEN updatedDeck ELSE prevDecks[d]]

\* faulty variant: the daily id list takes the id of every answer
ReviewStatsEveryAnswer(prev, phraseId, isCorrect) ==
  [prev EXCEPT
     !.totalReviewCount = @ + 1,
     !.daily.reviewCount = @ + 1,
     !.daily.correctCount = @ + (IF isCorrect THEN 1 ELSE 0),
     !.daily.wrongCount = @ + (IF isCorrect THEN 0 ELSE 1),
     !.daily.reviewedPhraseIds = Append(@, phraseId)]

\* App.handleReviewStat, part 1: setStats(prev => ...)
ReviewStats(prev, phraseId, isCorrect) ==
  LET currentReviewIds == prev.daily.reviewedPhraseIds
      isNewDailyPhrase == phraseId \notin Range(currentReviewIds)
  IN [prev EXCEPT
        !.totalReviewCount = @ + 1,
        !.daily.reviewCount = @ + 1,
        !.daily.correctCount = @ + (IF isCorrect THEN 1 ELSE 0),
        !.daily.wrongCount = @ + (IF isCorrect THEN 0 ELSE 1),
        !.daily.reviewedPhraseIds =
           IF isNewDailyPhrase THEN Append(currentReviewIds, phraseId) ELSE currentReviewIds]

\* App.handleReviewStat, part 2: setDecks(prev => ...) on the active deck
ReviewDecks(prevDecks, active) ==
  IF active = NULL THEN prevDecks
  ELSE [d \in DOMAIN prevDecks |->
          IF prevDecks[d].id = active
          THEN [prevDecks[d] EXCEPT !.stats.totalReviewCount = @ + 1]
          ELSE prevDecks[d]]

\* App.handleTimeUpdate, part 1: setStats(prev => ...)
TimeStats(prev, seconds) ==
  [prev EXCEPT !.totalStudyTimeSeconds = @ + seconds,
               !.daily.studyTimeSeconds = @ + seconds]

\* App.handleTimeUpdate, part 2: setDecks(prev => ...) on the active deck
TimeDecks(prevDecks, active, seconds) ==
  IF active = NULL THEN prevDecks
  ELSE [d \in DOMAIN prevDecks |->
          IF prevDecks[d].id = active
          THEN [prevDecks[d] EXCEPT !.stats.totalStudyTimeSeconds = @ + seconds]
          ELSE prevDecks[d]]

\* ---------------------------------------------------------------- Scheduler
\* Math.pow(b, e) for a natural exponent
RECURSIVE Pow(_, _)
Pow(b, e) == IF e = 0 THEN 1 ELSE b * Pow(b, e - 1)

\* faulty variant: the opposite streak is not reset
UpdatePhraseNoReset(p, isCorrect) ==
  [p EXCEPT !.totalReviews = @ + 1,
            !.consecutiveCorrect = IF isCorrect THEN @ + 1 ELSE @,
            !.consecutiveWrong = IF isCorrect THEN @ ELSE @ + 1,
            !.lastReviewedAt = Timestamp]

\* the counter update of one answer (StudySession.calculateResult step 2)
UpdatePhrase(p, isCorrect) ==
  [p EXCEPT !.totalReviews = @ + 1,
            !.consecutiveCorrect = IF isCorrect THEN @ + 1 ELSE 0,
            !.consecutiveWrong = IF isCorrect THEN 0 ELSE @ + 1,
            !.lastReviewedAt = Timestamp]

\* faulty variant: the counter update reaches every card of the deck
UpdatedPhrasesAll(phrases, id, isCorrect) ==
  [i \in 1..Len(phrases) |-> UpdatePhrase(phrases[i], isCorrect)]

\* deck.phrases.map(p => p.id === id ? {...} : p)
UpdatedPhrases(phrases, id, isCorrect) ==
  [i \in 1..Len(phrases) |->
     IF phrases[i].id = id THEN UpdatePhrase(phrases[i], isCorrect) ELSE phrases[i]]

\* faulty variant: the multiple-of-3 test reads the counter before its increment
InsertOffsetBeforeIncrement(isCorrect, updatedPhrase) ==
  IF ~isCorrect
  THEN IF updatedPhrase.consecutiveWrong - 1 > 0
          /\ (updatedPhrase.consecutiveWrong - 1) % EscalateEvery = 0
       THEN LongPenalty
       ELSE ShortPenalty
  ELSE Pow(PowBase, updatedPhrase.consecutiveCorrect + 1)

\* faulty variant: the exponent misses its + 1
InsertOffsetNoPlusOne(isCorrect, updatedPhrase) ==
  IF ~isCorrect
  THEN IF updatedPhrase.consecutiveWrong > 0
          /\ updatedPhrase.consecutiveWrong % EscalateEvery = 0
       THEN LongPenalty
       ELSE ShortPenalty
  ELSE Pow(PowBase, updatedPhrase.consecutiveCorrect)

\* step 3: the requested re-insertion offset
InsertOffset(isCorrect, updatedPhrase) ==
  IF ~isCorrect
  THEN IF updatedPhrase.consecutiveWrong > 0
          /\ updatedPhrase.consecutiveWrong % EscalateEvery = 0
       THEN LongPenalty
       ELSE ShortPenalty
  ELSE Pow(PowBase, updatedPhrase.consecutiveCorrect + 1)

\* faulty variant: the head is not removed before the re-insertion
ShiftNothing(q) == q

\* const nextQueue = [...queue]; nextQueue.shift()
Shift(q) == IF q = <<>> THEN q ELSE Tail(q)

\* faulty variant: the splice lands one place early
SpliceOneEarly(q, k, id) ==
  IF k = 0 THEN <<id>> \o q
  ELSE SubSeq(q, 1, k - 1) \o <<id>> \o SubSeq(q, k, Len(q))

\* faulty variant: the cards behind the insertion point come to the front
SpliceRotated(q, k, id) == SubSeq(q, k + 1, Len(q)) \o <<id>> \o SubSeq(q, 1, k)

\* nextQueue.splice(k, 0, id) for 0 <= k <= nextQueue.length
Splice(q, k, id) == SubSeq(q, 1, k) \o <<id>> \o SubSeq(q, k + 1, Len(q))

\* faulty variant: a card whose offset passes the end is not put back
ReinsertDropsPastEnd(nextQueue, insertOffset, id) ==
  IF insertOffset > Len(nextQueue)
  THEN [nextQueue |-> nextQueue, insertOffset |-> Len(nextQueue)]
  ELSE [nextQueue |-> Splice(nextQueue, insertOffset, id), insertOffset |-> insertOffset]

\* "Insert back into queue": the new queue and the index reported for it
Reinsert(nextQueue, insertOffset, id) ==
  IF insertOffset > Len(nextQueue)
  THEN [nextQueue |-> Append(nextQueue, id), insertOffset |-> Len(nextQueue) + 1]
  ELSE [nextQueue |-> Splice(nextQueue, insertOffset, id), insertOffset |-> insertOffset]

\* StudySession.calculateResult without its onReview call: kind is "null" for
\* the early return, "throw" when the current id matches no card (updatedPhrase
\* is undefined and reading its counter raises a TypeError), "ok" otherwise.
calculateResult(deck, cur, q, isCorrect) ==
  LET updatedPhrases == UpdatedPhrases(deck.phrases, cur, isCorrect)
      found == FindPhrase(updatedPhrases, cur) # 0
      requested == IF found THEN InsertOffset(isCorrect, PhraseOf(updatedPhrases, cur)) ELSE 0
      ins == Reinsert(Shift(q), requested, cur)
  IN IF cur = NULL
     THEN [kind |-> "null", updatedPhrases |-> deck.phrases, nextQueue |-> q,
           insertOffset |-> 0, requested |-> 0]
     ELSE IF ~found
     THEN [kind |-> "throw", updatedPhrases |-> updatedPhrases, nextQueue |-> Shift(q),
           insertOffset |-> 0, requested |-> 0]
     ELSE [kind |-> "ok", updatedPhrases |-> updatedPhrases, nextQueue |-> ins.nextQueue,
           insertOffset |-> ins.insertOffset, requested |-> requested]

\* ------------------------------------------------------------- history
\* the state a handler ran in
Pre ==
  [view |-> view, decks |-> decks, stats |-> stats, queue |-> queue,
   currentPhraseId |-> currentPhraseId, cardState |-> cardState,
   sessionStats |-> sessionStats, sessionDuration |-> sessionDuration,
   feedback |-> feedback, questions |-> questions, currentIndex |-> currentIndex,
   step |-> step, score |-> score, isFinished |-> isFinished, results |-> results,
   examDuration |-> examDuration, sessions |-> sessions, answered |-> answered]

Ran(op, isCorrect) == [op |-> op, isCorrect |-> isCorrect, pre |-> Pre]

\* the events of the behaviour so far that count against MaxEvents; an
\* import, a merge or an editor save weighs as two
Events ==
  sessions + stats.totalReviewCount + stats.totalStudyTimeSeconds + Cardinality(deleted)
    + 2 * edits

\* ------------------------------------------------------------- StudySession
\* const currentPhrase = deck.phrases.find(p => p.id === currentPhraseId)
HasCurrentPhrase ==
  /\ activeDeckId # NULL
  /\ currentPhraseId # NULL
  /\ FindPhrase(decks[activeDeckId].phrases, currentPhraseId) # 0

\* the main card view is rendered (neither the empty nor the loading screen)
CardShown == view = "STUDY" /\ HasCurrentPhrase

\* useState initialisers of StudySession, run when App mounts it
MountStudy(deck) ==
  /\ queue' = deck.queue
  /\ currentPhraseId' = IF Len(deck.queue) > 0 THEN deck.queue[1] ELSE NULL
  /\ cardState' = "HIDDEN"
  /\ sessionStats' = [correct |-> 0, wrong |-> 0]
  /\ sessionDuration' = 0
  /\ feedback' = NoFeedback

\* the state of an unmounted StudySession
UnmountStudy ==
  /\ queue' = <<>>
  /\ currentPhraseId' = NULL
  /\ cardState' = "HIDDEN"
  /\ sessionStats' = [correct |-> 0, wrong |-> 0]
  /\ sessionDuration' = 0
  /\ feedback' = NoFeedback

\* dashboard: setActiveDeckId(deck.id); setView(AppView.STUDY)
StartStudy ==
  /\ view = "DASHBOARD"
  /\ \E d \in DOMAIN decks :
       /\ activeDeckId' = decks[d].id
       /\ MountStudy(decks[d])
  /\ view' = "STUDY"
  /\ Events < MaxEvents
  /\ sessions' = sessions + 1
  /\ last' = Ran("startStudy", FALSE)
  /\ calls' = <<>>
  /\ UNCHANGED <<decks, stats, answered, deleted>>
  /\ UNCHANGED examVars
  /\ UNCHANGED editorVars
  /\ UNCHANGED textVars

\* the body shared by handleDontKnow and handleVerdict: calculateResult (with
\* its onReview), the deck write-back and the session state updates
Answer(isCorrect, nextState) ==
  LET deck == decks[activeDeckId]
      r == calculateResult(deck, currentPhraseId, queue, isCorrect)
      written == [deck EXCEPT !.phrases = r.updatedPhrases, !.queue = r.nextQueue]
      review == Call("onReview", [id |-> currentPhraseId, isCorrect |-> isCorrect])
      calc == Call("calculateResult", [isCorrect |-> isCorrect, requested |-> r.requested,
                                       insertOffset |-> r.insertOffset])
  IN
  /\ currentPhraseId # NULL => Events < MaxEvents
  /\ IF r.kind = "null"
     THEN /\ calls' = <<Call("calculateResult", [isCorrect |-> isCorrect, requested |-> 0,
                                                   insertOffset |-> 0])>>
          /\ UNCHANGED <<decks, stats, queue, cardState, sessionStats, feedback, answered>>
     ELSE IF r.kind = "throw"
     THEN /\ stats' = ReviewStats(stats, currentPhraseId, isCorrect)
          /\ decks' = ReviewDecks(decks, activeDeckId)
          /\ answered' = [answered EXCEPT ![currentPhraseId] = @ + 1]
          /\ calls' = <<review, calc>>
          /\ UNCHANGED <<queue, cardState, sessionStats, feedback>>
     ELSE /\ stats' = ReviewStats(stats, currentPhraseId, isCorrect)
          /\ decks' = updateDeck(ReviewDecks(decks, activeDeckId), written)
          /\ answered' = [answered EXCEPT ![currentPhraseId] = @ + 1]
          /\ queue' = r.nextQueue
          /\ sessionStats' = [correct |-> sessionStats.correct + (IF isCorrect THEN 1 ELSE 0),
                               wrong |-> sessionStats.wrong + (IF isCorrect THEN 0 ELSE 1)]
          /\ feedback' = [set |-> TRUE, insertIndex |-> r.insertOffset, isCorrect |-> isCorrect]
          /\ cardState' = nextState
          /\ calls' = <<review, calc, Call("onUpdateDeck", written)>>
  /\ UNCHANGED <<view, activeDeckId, currentPhraseId, sessionDuration, deleted>>
  /\ UNCHANGED examVars
  /\ UNCHANGED editorVars
  /\ UNCHANGED textVars
  /\ UNCHANGED sessions

\* faulty variant: "I don't know" is taken in every card state
handleDontKnowAnyState ==
  /\ view = "STUDY"
  /\ last' = Ran("handleDontKnow", FALSE)
  /\ Answer(FALSE, "MISSED")

\* "I don't know": button (HIDDEN controls) or key '2' in HIDDEN
handleDontKnow ==
  /\ view = "STUDY" /\ cardState = "HIDDEN"
  /\ last' = Ran("handleDontKnow", FALSE)
  /\ Answer(FALSE, "MISSED")

\* faulty variant: "I know this" is scheduled as a correct answer at once
handleKnowScheduled ==
  /\ view = "STUDY" /\ cardState = "HIDDEN"
  /\ last' = Ran("handleKnow", FALSE)
  /\ Answer(TRUE, "VERIFYING")

\* "I know this": button or key '1' in HIDDEN
handleKnow ==
  /\ view = "STUDY" /\ cardState = "HIDDEN"
  /\ cardState' = "VERIFYING"
  /\ last' = Ran("handleKnow", FALSE)
  /\ calls' = <<>>
  /\ UNCHANGED <<view, activeDeckId, decks, stats, queue, currentPhraseId, sessionStats,
                 sessionDuration, feedback, answered, deleted>>
  /\ UNCHANGED examVars
  /\ UNCHANGED editorVars
  /\ UNCHANGED textVars
  /\ UNCHANGED sessions

\* verdict buttons or keys '1' / '2' in VERIFYING
handleVerdict ==
  /\ view = "STUDY" /\ cardState = "VERIFYING"
  /\ \E isCorrect \in BOOLEAN :
       /\ last' = Ran("handleVerdict", isCorrect)
       /\ Answer(isCorrect, "REVIEWED")

\* the fallback effect: a lost current id with a non-empty queue is re-seated
Fallback(cur, q) == IF cur = NULL /\ Len(q) > 0 THEN q[1] ELSE cur

\* faulty variant: the advance keeps the answered card in view
handleNextKeepsCard ==
  /\ view = "STUDY" /\ cardState \in {"MISSED", "REVIEWED"}
  /\ IF Len(queue) > 0
     THEN /\ cardState' = "HIDDEN"
          /\ feedback' = NoFeedback
          /\ UNCHANGED currentPhraseId
     ELSE /\ currentPhraseId' = Fallback(NULL, queue)
          /\ UNCHANGED <<cardState, feedback>>
  /\ last' = Ran("handleNext", FALSE)
  /\ calls' = <<>>
  /\ UNCHANGED <<view, activeDeckId, decks, stats, queue, sessionStats, sessionDuration,
                 answered, deleted>>
  /\ UNCHANGED examVars
  /\ UNCHANGED editorVars
  /\ UNCHANGED textVars
  /\ UNCHANGED sessions

\* "next" button or keys in MISSED / REVIEWED
handleNext ==
  /\ view = "STUDY" /\ cardState \in {"MISSED", "REVIEWED"}
  /\ IF Len(queue) > 0
     THEN /\ currentPhraseId' = queue[1]
          /\ cardState' = "HIDDEN"
          /\ feedback' = NoFeedback
     ELSE /\ currentPhraseId' = Fallback(NULL, queue)
          /\ UNCHANGED <<cardState, feedback>>
  /\ last' = Ran("handleNext", FALSE)
  /\ calls' = <<>>
  /\ UNCHANGED <<view, activeDeckId, decks, stats, queue, sessionStats, sessionDuration,
                 answered, deleted>>
  /\ UNCHANGED examVars
  /\ UNCHANGED editorVars
  /\ UNCHANGED textVars
  /\ UNCHANGED sessions

\* faulty variant: a deletion that empties the queue keeps the current id
handleDeletePhraseKeepsCurrent ==
  LET deck == decks[activeDeckId]
      updatedPhrases == SelectSeq(deck.phrases, LAMBDA p : p.id # currentPhraseId)
      updatedQueue == FilterOut(queue, currentPhraseId)
      nextQueue == FilterOut(deck.queue, currentPhraseId)
      written == [deck EXCEPT !.phrases = updatedPhrases, !.queue = nextQueue]
  IN
  /\ CardShown
  /\ Events < MaxEvents
  /\ deleted' = deleted \cup {currentPhraseId}
  /\ decks' = updateDeck(decks, written)
  /\ queue' = updatedQueue
  /\ IF Len(updatedQueue) > 0
     THEN /\ currentPhraseId' = updatedQueue[1]
          /\ cardState' = "HIDDEN"
     ELSE UNCHANGED <<currentPhraseId, cardState>>
  /\ last' = Ran("handleDeletePhrase", FALSE)
  /\ calls' = <<Call("onUpdateDeck", written)>>
  /\ UNCHANGED <<view, activeDeckId, stats, sessionStats, sessionDuration, feedback, answered>>
  /\ UNCHANGED examVars
  /\ UNCHANGED editorVars
  /\ UNCHANGED textVars
  /\ UNCHANGED sessions

\* faulty variant: the deletion filters the working queue only
handleDeletePhraseLocalOnly ==
  LET deck == decks[activeDeckId]
      updatedPhrases == SelectSeq(deck.phrases, LAMBDA p : p.id # currentPhraseId)
      updatedQueue == FilterOut(queue, currentPhraseId)
      written == [deck EXCEPT !.phrases = updatedPhrases]
  IN
  /\ CardShown
  /\ Events < MaxEvents
  /\ deleted' = deleted \cup {currentPhraseId}
  /\ decks' = updateDeck(decks, written)
  /\ queue' = updatedQueue
  /\ IF Len(updatedQueue) > 0
     THEN /\ currentPhraseId' = updatedQueue[1]
          /\ cardState' = "HIDDEN"
     ELSE /\ currentPhraseId' = Fallback(NULL, updatedQueue)
          /\ UNCHANGED cardState
  /\ last' = Ran("handleDeletePhrase", FALSE)
  /\ calls' = <<Call("onUpdateDeck", written)>>
  /\ UNCHANGED <<view, activeDeckId, stats, sessionStats, sessionDuration, feedback, answered>>
  /\ UNCHANGED examVars
  /\ UNCHANGED editorVars
  /\ UNCHANGED textVars
  /\ UNCHANGED sessions

\* the delete button of the edit form (the form opens from the card view and
\* takes no answer or advance while open), confirmed
handleDeletePhrase ==
  LET deck == decks[activeDeckId]
      updatedPhrases == SelectSeq(deck.phrases, LAMBDA p : p.id # currentPhraseId)
      updatedQueue == FilterOut(queue, currentPhraseId)
      nextQueue == FilterOut(deck.queue, currentPhraseId)
      written == [deck EXCEPT !.phrases = updatedPhrases, !.queue = nextQueue]
  IN
  /\ CardShown
  /\ Events < MaxEvents
  /\ deleted' = deleted \cup {currentPhraseId}
  /\ decks' = updateDeck(decks, written)
  /\ queue' = updatedQueue
  /\ IF Len(updatedQueue) > 0
     THEN /\ currentPhraseId' = updatedQueue[1]
          /\ cardState' = "HIDDEN"
     ELSE /\ currentPhraseId' = Fallback(NULL, updatedQueue)
          /\ UNCHANGED cardState
  /\ last' = Ran("handleDeletePhrase", FALSE)
  /\ calls' = <<Call("onUpdateDeck", written)>>
  /\ UNCHANGED <<view, activeDeckId, stats, sessionStats, sessionDuration, feedback, answered>>
  /\ UNCHANGED examVars
  /\ UNCHANGED editorVars
  /\ UNCHANGED textVars
  /\ UNCHANGED sessions

\* the one-second interval of a mounted StudySession
studyTick ==
  /\ view = "STUDY"
  /\ Events < MaxEvents
  /\ stats' = TimeStats(stats, 1)
  /\ decks' = TimeDecks(decks, activeDeckId, 1)
  /\ sessionDuration' = sessionDuration + 1
  /\ last' = Ran("studyTick", FALSE)
  /\ calls' = <<Call("onTimeUpdate", 1)>>
  /\ UNCHANGED <<view, activeDeckId, queue, currentPhraseId, cardState, sessionStats,
                 feedback, answered, deleted>>
  /\ UNCHANGED examVars
  /\ UNCHANGED editorVars
  /\ UNCHANGED textVars
  /\ UNCHANGED sessions

\* whether App hands the sessions an onSessionComplete prop: neither the
\* <StudySession> nor the <ExamSession> element has one
OnSessionCompletePassed == FALSE

\* StudySession.handleExit: if (onSessionComplete) onSessionComplete(...); onExit()
StudyExitCalls ==
  (IF OnSessionCompletePassed
   THEN <<Call("onSessionComplete", [durationSeconds |-> sessionDuration,
                                     correctCount |-> sessionStats.correct,
                                     wrongCount |-> sessionStats.wrong])>>
   ELSE <<>>) \o <<Call("onExit", 0)>>

\* faulty variant: the exit writes the deck back without the card in view
handleExitDiscardsCard ==
  /\ view = "STUDY"
  /\ HasCurrentPhrase \/ Len(queue) = 0
  /\ view' = "DASHBOARD"
  /\ UnmountStudy
  /\ decks' = IF activeDeckId = NULL THEN decks
              ELSE updateDeck(decks, [decks[activeDeckId] EXCEPT
                                        !.queue = FilterOut(@, currentPhraseId)])
  /\ last' = Ran("handleExit", FALSE)
  /\ calls' = <<Call("onExit", 0)>>
  /\ UNCHANGED <<activeDeckId, stats, answered, deleted>>
  /\ UNCHANGED examVars
  /\ UNCHANGED editorVars
  /\ UNCHANGED textVars
  /\ UNCHANGED sessions

\* the back button (card view header, or the empty screen): App passes no
\* onSessionComplete, so only onExit runs
handleExit ==
  /\ view = "STUDY"
  /\ HasCurrentPhrase \/ Len(queue) = 0
  /\ view' = "DASHBOARD"
  /\ UnmountStudy
  /\ last' = Ran("handleExit", FALSE)
  /\ calls' = StudyExitCalls
  /\ UNCHANGED <<activeDeckId, decks, stats, answered, deleted>>
  /\ UNCHANGED examVars
  /\ UNCHANGED editorVars
  /\ UNCHANGED textVars
  /\ UNCHANGED sessions

\* -------------------------------------------------------------- ExamSession
\* Array.prototype.slice(0, end): a negative end counts from the end
Slice0(s, end) ==
  LET e == IF end < 0 THEN (IF Len(s) + end < 0 THEN 0 ELSE Len(s) + end)
           ELSE (IF end > Len(s) THEN Len(s) ELSE end)
  IN SubSeq(s, 1, e)

\* the orders [...deck.phrases].sort(() => 0.5 - Math.random()) can produce:
\* every permutation of the card list (here: of its ids)
Shuffles(phrases) ==
  LET n == Len(phrases)
  IN {[i \in 1..n |-> phrases[f[i]].id] :
        f \in {g \in [1..n -> 1..n] : \A i, j \in 1..n : g[i] = g[j] => i = j}}

\* the question lists the initialisation effect can set
Selections(deck, questionCount) ==
  {Slice0(shuffled, Min(questionCount, Len(deck.phrases))) : shuffled \in Shuffles(deck.phrases)}

\* faulty variant: only correct verdicts count as reviews
ExamUpdatePhraseCorrectOnly(p, correct) ==
  [p EXCEPT !.totalReviews = IF correct THEN @ + 1 ELSE @,
            !.consecutiveCorrect = IF correct THEN @ + 1 ELSE 0,
            !.consecutiveWrong = IF correct THEN 0 ELSE @ + 1,
            !.lastReviewedAt = Timestamp]

\* faulty variant: a wrong verdict keeps the correct streak
ExamUpdatePhraseKeepsStreak(p, correct) ==
  [p EXCEPT !.totalReviews = @ + 1,
            !.consecutiveCorrect = IF correct THEN @ + 1 ELSE @,
            !.consecutiveWrong = IF correct THEN 0 ELSE @ + 1,
            !.lastReviewedAt = Timestamp]

\* the counter update of one exam verdict (ExamSession.handleVerdict)
ExamUpdatePhrase(p, correct) ==
  [p EXCEPT !.totalReviews = @ + 1,
            !.consecutiveCorrect = IF correct THEN @ + 1 ELSE 0,
            !.consecutiveWrong = IF correct THEN 0 ELSE @ + 1,
            !.lastReviewedAt = Timestamp]

\* deck.phrases.map(p => p.id === currentPhrase.id ? {...} : p)
ExamUpdatedPhrases(phrases, id, correct) ==
  [i \in 1..Len(phrases) |->
     IF phrases[i].id = id THEN ExamUpdatePhrase(phrases[i], correct) ELSE phrases[i]]

\* the state of an unmounted ExamSession
UnmountExam ==
  /\ questions' = <<>>
  /\ currentIndex' = 0
  /\ step' = "QUESTION"
  /\ score' = 0
  /\ isFinished' = FALSE
  /\ results' = <<>>
  /\ examDuration' = 0

\* the question counts the setup dialog can hold for a deck of n cards
ExamCounts(n) == -1..(n + 1)

\* initiateExam, the count input and startExam, then the mount of ExamSession
\* with its initialisation effect
startExam ==
  /\ view = "DASHBOARD"
  /\ \E d \in DOMAIN decks : \E tempExamCount \in ExamCounts(Len(decks[d].phrases)) :
       /\ activeDeckId' = decks[d].id
       /\ questions' \in Selections(decks[d], tempExamCount)
       /\ calls' = <<Call("startExam", [count |-> tempExamCount])>>
  /\ view' = "EXAM_SESSION"
  /\ currentIndex' = 0
  /\ step' = "QUESTION"
  /\ score' = 0
  /\ isFinished' = FALSE
  /\ results' = <<>>
  /\ examDuration' = 0
  /\ Events < MaxEvents
  /\ sessions' = sessions + 1
  /\ last' = Ran("startExam", FALSE)
  /\ UNCHANGED <<decks, stats, answered, deleted>>
  /\ UNCHANGED studyVars
  /\ UNCHANGED editorVars
  /\ UNCHANGED textVars

\* reveal button, or Space / Enter / '1' in QUESTION
examHandleReveal ==
  /\ view = "EXAM_SESSION" /\ ~isFinished /\ step = "QUESTION"
  /\ step' = "REVEAL"
  /\ last' = Ran("examHandleReveal", FALSE)
  /\ calls' = <<>>
  /\ UNCHANGED <<view, activeDeckId, decks, stats, questions, currentIndex, score,
                 isFinished, results, examDuration, answered, deleted>>
  /\ UNCHANGED studyVars
  /\ UNCHANGED editorVars
  /\ UNCHANGED textVars
  /\ UNCHANGED sessions

\* faulty variant: the initialisation effect runs again on the deck written
\* back by a verdict
examHandleVerdictResamples ==
  /\ view = "EXAM_SESSION" /\ ~isFinished /\ step = "REVEAL"
  /\ \E correct \in BOOLEAN :
       LET deck == decks[activeDeckId]
           hasQuestion == currentIndex < Len(questions)
           id == IF hasQuestion THEN questions[currentIndex + 1] ELSE NULL
           written == [deck EXCEPT !.phrases = ExamUpdatedPhrases(deck.phrases, id, correct)]
       IN
       /\ last' = Ran("examHandleVerdict", correct)
       /\ IF ~hasQuestion
          THEN /\ calls' = <<Call("throw", 0)>>
               /\ UNCHANGED <<decks, stats, currentIndex, step, score, isFinished, results,
                              answered>>
          ELSE /\ Events < MaxEvents
               /\ stats' = ReviewStats(stats, id, correct)
               /\ decks' = updateDeck(ReviewDecks(decks, activeDeckId), written)
               /\ answered' = [answered EXCEPT ![id] = @ + 1]
               /\ results' = Append(results, [id |-> id, correct |-> correct])
               /\ score' = IF correct THEN score + 1 ELSE score
               /\ IF currentIndex < Len(questions) - 1
                  THEN /\ currentIndex' = currentIndex + 1
                       /\ step' = "QUESTION"
                       /\ UNCHANGED isFinished
                  ELSE /\ isFinished' = TRUE
                       /\ step' = "RESULT"
                       /\ UNCHANGED currentIndex
               /\ calls' = <<Call("onReview", [id |-> id, isCorrect |-> correct]),
                             Call("onUpdateDeck", written)>>
       /\ questions' \in (IF hasQuestion THEN Selections(written, Len(questions))
                           ELSE {questions})
  /\ UNCHANGED <<view, activeDeckId, examDuration, deleted>>
  /\ UNCHANGED studyVars
  /\ UNCHANGED editorVars
  /\ UNCHANGED textVars
  /\ UNCHANGED sessions

\* faulty variant: the verdict keys are taken before the answer is revealed
examHandleVerdictAnyStep ==
  /\ view = "EXAM_SESSION" /\ ~isFinished
  /\ \E correct \in BOOLEAN :
       LET deck == decks[activeDeckId]
           hasQuestion == currentIndex < Len(questions)
           id == IF hasQuestion THEN questions[currentIndex + 1] ELSE NULL
           written == [deck EXCEPT !.phrases = ExamUpdatedPhrases(deck.phrases, id, correct)]
       IN
       /\ last' = Ran("examHandleVerdict", correct)
       /\ IF ~hasQuestion
          THEN /\ calls' = <<Call("throw", 0)>>
               /\ UNCHANGED <<decks, stats, currentIndex, step, score, isFinished, results,
                              answered>>
          ELSE /\ Events < MaxEvents
               /\ stats' = ReviewStats(stats, id, correct)
               /\ decks' = updateDeck(ReviewDecks(decks, activeDeckId), written)
               /\ answered' = [answered EXCEPT ![id] = @ + 1]
               /\ results' = Append(results, [id |-> id, correct |-> correct])
               /\ score' = IF correct THEN score + 1 ELSE score
               /\ IF currentIndex < Len(questions) - 1
                  THEN /\ currentIndex' = currentIndex + 1
                       /\ step' = "QUESTION"
                       /\ UNCHANGED isFinished
                  ELSE /\ isFinished' = TRUE
                       /\ step' = "RESULT"
                       /\ UNCHANGED currentIndex
               /\ calls' = <<Call("onReview", [id |-> id, isCorrect |-> correct]),
                             Call("onUpdateDeck", written)>>
  /\ UNCHANGED <<view, activeDeckId, questions, examDuration, deleted>>
  /\ UNCHANGED studyVars
  /\ UNCHANGED editorVars
  /\ UNCHANGED textVars
  /\ UNCHANGED sessions

\* faulty variant: every verdict scores
examHandleVerdictScoresAll ==
  /\ view = "EXAM_SESSION" /\ ~isFinished /\ step = "REVEAL"
  /\ \E correct \in BOOLEAN :
       LET deck == decks[activeDeckId]
           hasQuestion == currentIndex < Len(questions)
           id == IF hasQuestion THEN questions[currentIndex + 1] ELSE NULL
           written == [deck EXCEPT !.phrases = ExamUpdatedPhrases(deck.phrases, id, correct)]
       IN
       /\ last' = Ran("examHandleVerdict", correct)
       /\ IF ~hasQuestion
          THEN /\ calls' = <<Call("throw", 0)>>
               /\ UNCHANGED <<decks, stats, currentIndex, step, score, isFinished, results,
                              answered>>
          ELSE /\ Events < MaxEvents
               /\ stats' = ReviewStats(stats, id, correct)
               /\ decks' = updateDeck(ReviewDecks(decks, activeDeckId), written)
               /\ answered' = [answered EXCEPT ![id] = @ + 1]
               /\ results' = Append(results, [id |-> id, correct |-> correct])
               /\ score' = score + 1
               /\ IF currentIndex < Len(questions) - 1
                  THEN /\ currentIndex' = currentIndex + 1
                       /\ step' = "QUESTION"
                       /\ UNCHANGED isFinished
                  ELSE /\ isFinished' = TRUE
                       /\ step' = "RESULT"
                       /\ UNCHANGED currentIndex
               /\ calls' = <<Call("onReview", [id |-> id, isCorrect |-> correct]),
                             Call("onUpdateDeck", written)>>
  /\ UNCHANGED <<view, activeDeckId, questions, examDuration, deleted>>
  /\ UNCHANGED studyVars
  /\ UNCHANGED editorVars
  /\ UNCHANGED textVars
  /\ UNCHANGED sessions

\* verdict buttons, or keys '1' / '2' in REVEAL; with no question at the
\* current index currentPhrase is undefined and reading its id throws
examHandleVerdict ==
  /\ view = "EXAM_SESSION" /\ ~isFinished /\ step = "REVEAL"
  /\ \E correct \in BOOLEAN :
       LET deck == decks[activeDeckId]
           hasQuestion == currentIndex < Len(questions)
           id == IF hasQuestion THEN questions[currentIndex + 1] ELSE NULL
           written == [deck EXCEPT !.phrases = ExamUpdatedPhrases(deck.phrases, id, correct)]
       IN
       /\ last' = Ran("examHandleVerdict", correct)
       /\ IF ~hasQuestion
          THEN /\ calls' = <<Call("throw", 0)>>
               /\ UNCHANGED <<decks, stats, currentIndex, step, score, isFinished, results,
                              answered>>
          ELSE /\ Events < MaxEvents
               /\ stats' = ReviewStats(stats, id, correct)
               /\ decks' = updateDeck(ReviewDecks(decks, activeDeckId), written)
               /\ answered' = [answered EXCEPT ![id] = @ + 1]
               /\ results' = Append(results, [id |-> id, correct |-> correct])
               /\ score' = IF correct THEN score + 1 ELSE score
               /\ IF currentIndex < Len(questions) - 1
                  THEN /\ currentIndex' = currentIndex + 1
                       /\ step' = "QUESTION"
                       /\ UNCHANGED isFinished
                  ELSE /\ isFinished' = TRUE
                       /\ step' = "RESULT"
                       /\ UNCHANGED currentIndex
               /\ calls' = <<Call("onReview", [id |-> id, isCorrect |-> correct]),
                             Call("onUpdateDeck", written)>>
  /\ UNCHANGED <<view, activeDeckId, questions, examDuration, deleted>>
  /\ UNCHANGED studyVars
  /\ UNCHANGED editorVars
  /\ UNCHANGED textVars
  /\ UNCHANGED sessions

\* faulty variant: the interval survives the end of the exam
examTickAfterFinish ==
  /\ view = "EXAM_SESSION"
  /\ Events < MaxEvents
  /\ stats' = TimeStats(stats, 1)
  /\ decks' = TimeDecks(decks, activeDeckId, 1)
  /\ examDuration' = examDuration + 1
  /\ last' = Ran("examTick", FALSE)
  /\ calls' = <<Call("onTimeUpdate", 1)>>
  /\ UNCHANGED <<view, activeDeckId, questions, currentIndex, step, score, isFinished,
                 results, answered, deleted>>
  /\ UNCHANGED studyVars
  /\ UNCHANGED editorVars
  /\ UNCHANGED textVars
  /\ UNCHANGED sessions

\* the one-second interval of an unfinished ExamSession
examTick ==
  /\ view = "EXAM_SESSION" /\ ~isFinished
  /\ Events < MaxEvents
  /\ stats' = TimeStats(stats, 1)
  /\ decks' = TimeDecks(decks, activeDeckId, 1)
  /\ examDuration' = examDuration + 1
  /\ last' = Ran("examTick", FALSE)
  /\ calls' = <<Call("onTimeUpdate", 1)>>
  /\ UNCHANGED <<view, activeDeckId, questions, currentIndex, step, score, isFinished,
                 results, answered, deleted>>
  /\ UNCHANGED studyVars
  /\ UNCHANGED editorVars
  /\ UNCHANGED textVars
  /\ UNCHANGED sessions

\* results.filter(r => r.correct).length
Corrects(res) == Cardinality({i \in 1..Len(res) : res[i].correct})

\* what ExamSession.handleExit computes from the results for its report
ExitReport(res) ==
  LET correct == Corrects(res)
  IN [answered |-> Len(res), correct |-> correct, wrong |-> Len(res) - correct]

\* ExamSession.handleExit: if (onSessionComplete && answered > 0)
\* onSessionComplete(...); onExit()
ExamExitCalls ==
  (IF OnSessionCompletePassed /\ ExitReport(results).answered > 0
   THEN <<Call("onSessionComplete", [durationSeconds |-> examDuration,
                                     correctCount |-> ExitReport(results).correct,
                                     wrongCount |-> ExitReport(results).wrong])>>
   ELSE <<>>) \o <<Call("onExit", 0)>>

\* the render offers an exit (header button, result screen button and finish
\* keys) only past `if (questions.length === 0) return Loading Exam...`
ExamExitOffered == view = "EXAM_SESSION" /\ Len(questions) > 0

\* the back button of the exam header or of the result screen (neither is
\* rendered while the question list is empty); App passes no onSessionComplete
examHandleExit ==
  /\ ExamExitOffered
  /\ view' = "DASHBOARD"
  /\ UnmountExam
  /\ last' = Ran("examHandleExit", FALSE)
  /\ calls' = ExamExitCalls
  /\ UNCHANGED <<activeDeckId, decks, stats, answered, deleted>>
  /\ UNCHANGED studyVars
  /\ UNCHANGED editorVars
  /\ UNCHANGED textVars
  /\ UNCHANGED sessions

\* ----------------------------------------------------- Importer / DeckEditor
\* Bulk text is a sequence of lines; a line is the record of its '|' separated
\* parts after trim: parts is their number, eng the first part, progress the
\* parseInt of the fourth (0 when absent or not a number) and position the
\* parseInt of the fifth, <<n>> for the number n and <<>> for null.
NoPosition == <<>>

TextLine(parts, eng, progress, position) ==
  [parts |-> parts, eng |-> eng, progress |-> progress, position |-> position]

\* lines.map((line, index) => ...): null (here <<>>) for a line of one part
ParseLines(lines) ==
  [i \in 1..Len(lines) |->
     IF lines[i].parts < 2 THEN <<>>
     ELSE <<[eng |-> lines[i].eng,
             progress |-> IF lines[i].parts >= 4 THEN lines[i].progress ELSE 0,
             position |-> IF lines[i].parts >= 5 THEN lines[i].position ELSE NoPosition,
             originalIndex |-> i - 1]>>]

\* .filter(item => item !== null)
RECURSIVE Flatten(_)
Flatten(ss) == IF ss = <<>> THEN <<>> ELSE Head(ss) \o Flatten(Tail(ss))

\* the injections of 1..n into itself: the rearrangements a sort can make
Arrangements(n) == {g \in [1..n -> 1..n] : \A i, j \in 1..n : g[i] = g[j] => i = j}

\* Importer: the comparator of parsedItems.sort
ImportCompare(a, b) ==
  IF a.position # NoPosition /\ b.position = NoPosition THEN -1
  ELSE IF a.position = NoPosition /\ b.position # NoPosition THEN 1
  ELSE IF a.position # NoPosition /\ b.position # NoPosition
            /\ a.position[1] # b.position[1]
       THEN a.position[1] - b.position[1]
       ELSE a.originalIndex - b.originalIndex

\* Importer parsedItems.sort: the comparator orders the items totally, so the
\* result is the one arrangement in which no item follows a greater one
SortImport(items) ==
  LET f == CHOOSE g \in Arrangements(Len(items)) :
             \A i, j \in 1..Len(items) :
                i < j => ImportCompare(items[g[i]], items[g[j]]) <= 0
  IN [i \in 1..Len(items) |-> items[f[i]]]

\* faulty variant: equal explicit positions fall back to the line order at once
BatchCompareLineOrder(a, b, keys) ==
  IF a.position # NoPosition /\ b.position = NoPosition THEN -1
  ELSE IF a.position = NoPosition /\ b.position # NoPosition THEN 1
  ELSE IF a.position # NoPosition /\ b.position # NoPosition
            /\ a.position[1] # b.position[1]
       THEN a.position[1] - b.position[1]
       ELSE a.originalIndex - b.originalIndex

\* DeckEditor.confirmBatchSave: the comparator of parsedItems.sort; keys are
\* the keys of existingPhrasesMap
BatchCompare(a, b, keys) ==
  IF a.position # NoPosition /\ b.position = NoPosition THEN -1
  ELSE IF a.position = NoPosition /\ b.position # NoPosition THEN 1
  ELSE IF a.position # NoPosition /\ b.position # NoPosition
       THEN IF a.position[1] # b.position[1] THEN a.position[1] - b.position[1]
            ELSE IF Key(a.eng) \notin keys /\ Key(b.eng) \in keys THEN -1
            ELSE IF Key(a.eng) \in keys /\ Key(b.eng) \notin keys THEN 1
            ELSE a.originalIndex - b.originalIndex
       ELSE a.originalIndex - b.originalIndex

\* DeckEditor parsedItems.sort (the comparator is total here as well)
SortBatch(items, keys) ==
  LET f == CHOOSE g \in Arrangements(Len(items)) :
             \A i, j \in 1..Len(items) :
                i < j => BatchCompare(items[g[i]], items[g[j]], keys) <= 0
  IN [i \in 1..Len(items) |-> items[f[i]]]

\* the card a parsed item creates under a new id
ItemPhrase(id, item) ==
  [id |-> id,
   english |-> item.eng,
   consecutiveCorrect |-> IF item.progress > 0 THEN item.progress ELSE 0,
   consecutiveWrong |-> IF item.progress < 0 THEN Abs(item.progress) ELSE 0,
   totalReviews |-> Abs(item.progress),
   lastReviewedAt |-> Undefined]

\* Importer.handleManualImport: the cards of the parsed, sorted lines, with
\* the ids uuidv4() hands out after the first `used` ones
ImportPhrases(lines, used) ==
  LET items == SortImport(Flatten(ParseLines(lines)))
  IN [i \in 1..Len(items) |-> ItemPhrase(used + i, items[i])]

\* existingPhrasesMap.get(key): position in phrases of the last card with that
\* key (a later set overwrites an earlier one), 0 when there is none
ExistingPhrase(phrases, key) ==
  IF \E i \in 1..Len(phrases) : Key(phrases[i].english) = key
  THEN CHOOSE i \in 1..Len(phrases) :
         /\ Key(phrases[i].english) = key
         /\ \A j \in (i+1)..Len(phrases) : Key(phrases[j].english) # key
  ELSE 0

\* the card an item that matches an existing card is saved as
BatchUpdatedPhrase(existing, item) ==
  LET correct == IF item.progress > 0 THEN item.progress ELSE 0
      wrong == IF item.progress < 0 THEN Abs(item.progress) ELSE 0
  IN [existing EXCEPT
        !.english = item.eng,
        !.consecutiveCorrect = correct,
        !.consecutiveWrong = wrong,
        !.totalReviews = IF correct + wrong > @ THEN correct + wrong ELSE @]

\* the loop of confirmBatchSave over the sorted items: newPhrasesList
RECURSIVE BatchPhrases(_, _, _)
BatchPhrases(items, phrases, used) ==
  IF items = <<>> THEN <<>>
  ELSE LET item == Head(items)
           at == ExistingPhrase(phrases, Key(item.eng))
       IN IF at # 0
          THEN <<BatchUpdatedPhrase(phrases[at], item)>>
                  \o BatchPhrases(Tail(items), phrases, used)
          ELSE <<ItemPhrase(used + 1, item)>>
                  \o BatchPhrases(Tail(items), phrases, used + 1)

\* the ids of a card list, in order
IdsOf(phrases) == [i \in 1..Len(phrases) |-> phrases[i].id]

\* generateBatchText: correct (positive) or -wrong (negative)
ExportProgress(p) ==
  IF p.consecutiveCorrect > 0 THEN p.consecutiveCorrect
  ELSE IF p.consecutiveWrong > 0 THEN 0 - p.consecutiveWrong
  ELSE 0

\* phraseMap.get(id): position in phrases of the last card with that id (a
\* later entry of the Map overwrites an earlier one), 0 when there is none
MappedPhrase(phrases, id) ==
  IF \E i \in 1..Len(phrases) : phrases[i].id = id
  THEN CHOOSE i \in 1..Len(phrases) :
         /\ phrases[i].id = id
         /\ \A j \in (i+1)..Len(phrases) : phrases[j].id # id
  ELSE 0

\* generateBatchText: orderedPhrases, the queued cards in queue order and then
\* the cards the queue does not hold
OrderedPhrases(phrases, deckQueue) ==
  LET queued == Flatten([i \in 1..Len(deckQueue) |->
                           IF MappedPhrase(phrases, deckQueue[i]) # 0
                           THEN <<phrases[MappedPhrase(phrases, deckQueue[i])]>>
                           ELSE <<>>])
      seenIds == {queued[i].id : i \in 1..Len(queued)}
  IN queued \o SelectSeq(phrases, LAMBDA p : p.id \notin seenIds)

\* generateBatchText: one line of five parts per card, its position the index
BatchTextOf(phrases, deckQueue) ==
  LET orderedPhrases == OrderedPhrases(phrases, deckQueue)
  IN [idx \in 1..Len(orderedPhrases) |->
        TextLine(5, orderedPhrases[idx].english,
                 ExportProgress(orderedPhrases[idx]), <<idx - 1>>)]

\* texts typed into the Importer: two lines of an unknown word, the second
\* with progress and a position; a line without '|' followed by a word; a
\* word in lower case and in capitals
ImportTexts ==
  {<<TextLine(4, 9, 0, NoPosition), TextLine(5, 8, -1, <<0>>)>>,
   <<TextLine(1, 1, 0, NoPosition), TextLine(2, 1, 0, NoPosition)>>,
   <<TextLine(2, 1, 0, NoPosition), TextLine(2, -1, 0, NoPosition)>>}

\* texts saved from the batch editor: word 1 twice, in lower case and in
\* capitals; an unknown word ahead of word 2 (word 1 is left out); word 2 with
\* progress ahead of word 1; word 1 and an unknown word at the same position
BatchTexts ==
  {<<TextLine(2, 1, 0, NoPosition), TextLine(5, -1, 2, <<0>>)>>,
   <<TextLine(5, 9, -1, <<0>>), TextLine(2, 2, 0, NoPosition)>>,
   <<TextLine(4, 1, 0, NoPosition), TextLine(5, 2, 1, <<0>>)>>,
   <<TextLine(5, 1, 0, <<0>>), TextLine(5, 9, 0, <<0>>)>>}

\* the largest card list a merge or an editor add may build
DeckCap == MaxAppCards + 1

\* the handlers below leave the sessions alone
NoSession ==
  /\ UNCHANGED studyVars
  /\ UNCHANGED examVars
  /\ UNCHANGED <<stats, sessions, answered>>
  /\ UNCHANGED textVars

\* dashboard: setView(AppView.IMPORT)
openImporter ==
  /\ view = "DASHBOARD"
  /\ view' = "IMPORT"
  /\ last' = Ran("openImporter", FALSE)
  /\ calls' = <<>>
  /\ UNCHANGED <<activeDeckId, decks, deleted>>
  /\ UNCHANGED editorVars
  /\ UNCHANGED textVars
  /\ NoSession

\* Importer.handleManualImport on a text that yields at least one card, with
\* App.handleCreateDeck as its onImport
handleManualImport ==
  /\ view = "IMPORT"
  /\ Events + 1 < MaxEvents
  /\ \E manualText \in ImportTexts :
       LET phrases == ImportPhrases(manualText, uuids)
           id == Cardinality(DOMAIN decks) + 1
           lines == Flatten(ParseLines(manualText))
       IN /\ Len(phrases) > 0
          /\ uuids + Len(phrases) <= MaxCards + 1
          /\ uuids' = uuids + Len(phrases)
          /\ decks' = [d \in DOMAIN decks \cup {id} |->
                         IF d = id THEN NewDeck(id, phrases) ELSE decks[d]]
          /\ calls' = <<Call("onImport", phrases),
                        Call("sort", [lines |-> lines, sorted |-> SortImport(lines),
                                      keys |-> {}])>>
  /\ view' = "DASHBOARD"
  /\ edits' = edits + 1
  /\ last' = Ran("handleManualImport", FALSE)
  /\ UNCHANGED <<activeDeckId, deleted, editorPhrases>>
  /\ NoSession

\* Importer back button
importerBack ==
  /\ view = "IMPORT"
  /\ view' = "DASHBOARD"
  /\ last' = Ran("importerBack", FALSE)
  /\ calls' = <<>>
  /\ UNCHANGED <<activeDeckId, decks, deleted>>
  /\ UNCHANGED editorVars
  /\ UNCHANGED textVars
  /\ NoSession

\* faulty variant: the copies keep the ids of the source cards
MergedPhrasesKeepIds(phrases, used) ==
  [i \in 1..Len(phrases) |->
     [phrases[i] EXCEPT !.consecutiveCorrect = 0,
                        !.consecutiveWrong = 0,
                        !.totalReviews = 0]]

\* the cards performMerge copies from the source deck: new ids, counters reset
MergedPhrases(phrases, used) ==
  [i \in 1..Len(phrases) |->
     [phrases[i] EXCEPT !.id = used + i,
                        !.consecutiveCorrect = 0,
                        !.consecutiveWrong = 0,
                        !.totalReviews = 0]]

\* initiateMerge on a source deck, then performMerge on one of the other
\* decks the merge dialog lists (a merge may be the last event of a behaviour)
performMerge ==
  /\ view = "DASHBOARD"
  /\ Events < MaxEvents
  /\ \E mergingDeckId \in DOMAIN decks : \E targetDeckId \in DOMAIN decks \ {mergingDeckId} :
       LET newPhrases == MergedPhrases(decks[mergingDeckId].phrases, uuids)
       IN /\ uuids + Len(newPhrases) <= MaxCards + 1
          /\ Len(decks[targetDeckId].phrases) + Len(newPhrases) <= DeckCap
          /\ uuids' = uuids + Len(newPhrases)
          /\ decks' = [d \in DOMAIN decks |->
                         IF decks[d].id = targetDeckId
                         THEN [decks[d] EXCEPT !.phrases = @ \o newPhrases,
                                               !.queue = @ \o IdsOf(newPhrases)]
                         ELSE decks[d]]
          /\ calls' = <<Call("performMerge", [source |-> mergingDeckId,
                                               target |-> targetDeckId])>>
  /\ edits' = edits + 1
  /\ last' = Ran("performMerge", FALSE)
  /\ UNCHANGED <<view, activeDeckId, deleted, editorPhrases>>
  /\ NoSession

\* App.handleEditDeck and the mount of DeckEditor
handleEditDeck ==
  /\ view = "DASHBOARD"
  /\ \E d \in DOMAIN decks :
       /\ activeDeckId' = decks[d].id
       /\ editorPhrases' = decks[d].phrases
  /\ view' = "EDIT_DECK"
  /\ last' = Ran("handleEditDeck", FALSE)
  /\ calls' = <<>>
  /\ UNCHANGED <<decks, deleted, uuids, edits>>
  /\ NoSession

\* faulty variant: the editor's deletion leaves the deck's queue as it is
confirmDeletePhraseKeepsQueue ==
  /\ view = "EDIT_DECK"
  /\ Events < MaxEvents
  /\ \E phraseToDelete \in Range(IdsOf(editorPhrases)) :
       LET deck == decks[activeDeckId]
           updatedPhrases == SelectSeq(editorPhrases, LAMBDA p : p.id # phraseToDelete)
           written == [deck EXCEPT !.phrases = updatedPhrases]
       IN /\ editorPhrases' = updatedPhrases
          /\ decks' = updateDeck(decks, written)
          /\ deleted' = deleted \cup {phraseToDelete}
          /\ calls' = <<Call("onUpdateDeck", written)>>
  /\ last' = Ran("confirmDeletePhrase", FALSE)
  /\ UNCHANGED <<view, activeDeckId, uuids, edits>>
  /\ NoSession

\* DeckEditor: the delete button of a row, then confirmDeletePhrase
confirmDeletePhrase ==
  /\ view = "EDIT_DECK"
  /\ Events < MaxEvents
  /\ \E phraseToDelete \in Range(IdsOf(editorPhrases)) :
       LET deck == decks[activeDeckId]
           updatedPhrases == SelectSeq(editorPhrases, LAMBDA p : p.id # phraseToDelete)
           newQueue == FilterOut(deck.queue, phraseToDelete)
           written == [deck EXCEPT !.phrases = updatedPhrases, !.queue = newQueue]
       IN /\ editorPhrases' = updatedPhrases
          /\ decks' = updateDeck(decks, written)
          /\ deleted' = deleted \cup {phraseToDelete}
          /\ calls' = <<Call("onUpdateDeck", written)>>
  /\ last' = Ran("confirmDeletePhrase", FALSE)
  /\ UNCHANGED <<view, activeDeckId, uuids, edits>>
  /\ NoSession

\* DeckEditor.handleAddPhrase: an empty card at the front of list and queue
handleAddPhrase ==
  LET deck == decks[activeDeckId]
      newPhrase == [id |-> uuids + 1, english |-> 0, consecutiveCorrect |-> 0,
                    consecutiveWrong |-> 0, totalReviews |-> 0,
                    lastReviewedAt |-> Undefined]
      updatedPhrases == <<newPhrase>> \o editorPhrases
      newQueue == <<newPhrase.id>> \o deck.queue
      written == [deck EXCEPT !.phrases = updatedPhrases, !.queue = newQueue]
  IN
  /\ view = "EDIT_DECK"
  /\ Events + 1 < MaxEvents
  /\ uuids + 1 <= MaxCards + 1
  /\ Len(updatedPhrases) <= DeckCap
  /\ uuids' = uuids + 1
  /\ editorPhrases' = updatedPhrases
  /\ decks' = updateDeck(decks, written)
  /\ edits' = edits + 1
  /\ calls' = <<Call("onUpdateDeck", written)>>
  /\ last' = Ran("handleAddPhrase", FALSE)
  /\ UNCHANGED <<view, activeDeckId, deleted>>
  /\ NoSession

\* DeckEditor.confirmBatchSave on the text the batch text area holds: the text
\* openBatchModal has put there (generateBatchText) or a text typed over it
confirmBatchSave ==
  /\ view = "EDIT_DECK"
  /\ Events + 1 < MaxEvents
  /\ \E batchText \in BatchTexts
                       \cup {BatchTextOf(editorPhrases, decks[activeDeckId].queue)} :
       LET deck == decks[activeDeckId]
           keys == {Key(editorPhrases[i].english) : i \in 1..Len(editorPhrases)}
           lines == Flatten(ParseLines(batchText))
           parsedItems == SortBatch(lines, keys)
           newPhrasesList == BatchPhrases(parsedItems, editorPhrases, uuids)
           newQueue == IdsOf(newPhrasesList)
           created == Cardinality({i \in 1..Len(parsedItems) :
                                     Key(parsedItems[i].eng) \notin keys})
           written == [deck EXCEPT !.phrases = newPhrasesList, !.queue = newQueue]
       IN /\ uuids + created <= MaxCards + 1
          /\ uuids' = uuids + created
          /\ editorPhrases' = newPhrasesList
          /\ decks' = updateDeck(decks, written)
          /\ deleted' = deleted \cup (Range(IdsOf(editorPhrases)) \ Range(newQueue))
          /\ calls' = <<Call("onUpdateDeck", written),
                        Call("sort", [lines |-> lines, sorted |-> parsedItems,
                                      keys |-> keys])>>
  /\ edits' = edits + 1
  /\ last' = Ran("confirmBatchSave", FALSE)
  /\ UNCHANGED <<view, activeDeckId>>
  /\ NoSession

\* DeckEditor back button
editorBack ==
  /\ view = "EDIT_DECK"
  /\ view' = "DASHBOARD"
  /\ editorPhrases' = <<>>
  /\ last' = Ran("editorBack", FALSE)
  /\ calls' = <<>>
  /\ UNCHANGED <<activeDeckId, decks, deleted, uuids, edits>>
  /\ NoSession

\* ------------------------------------------------------------ specification
Ids == 1..(MaxCards + 1)

\* a deck of n imported cards, the first of them seeded with progress
ImportedDeck(n, progress) ==
  NewDeck(TheDeck, [i \in 1..n |-> NewPhrase(i, IF i = 1 THEN progress ELSE 0)])

InitialStats ==
  [totalReviewCount |-> 0, totalStudyTimeSeconds |-> 0,
   daily |-> [reviewCount |-> 0, correctCount |-> 0, wrongCount |-> 0,
              reviewedPhraseIds |-> <<>>, studyTimeSeconds |-> 0]]

InitStore(deck) ==
  /\ view = "DASHBOARD"
  /\ activeDeckId = NULL
  /\ decks = [d \in {TheDeck} |-> deck]
  /\ stats = InitialStats
  /\ queue = <<>>
  /\ currentPhraseId = NULL
  /\ cardState = "HIDDEN"
  /\ sessionStats = [correct |-> 0, wrong |-> 0]
  /\ sessionDuration = 0
  /\ feedback = NoFeedback
  /\ questions = <<>>
  /\ currentIndex = 0
  /\ step = "QUESTION"
  /\ score = 0
  /\ isFinished = FALSE
  /\ results = <<>>
  /\ examDuration = 0
  /\ sessions = 0
  /\ answered = [i \in Ids |-> 0]
  /\ deleted = {}
  /\ editorPhrases = <<>>
  /\ uuids = Len(deck.phrases)
  /\ edits = 0
  /\ calls = <<>>
  /\ last = [op |-> "init", isCorrect |-> FALSE,
             pre |-> [view |-> "DASHBOARD", decks |-> [d \in {TheDeck} |-> deck],
                      stats |-> InitialStats, queue |-> <<>>, currentPhraseId |-> NULL,
                      cardState |-> "HIDDEN", sessionStats |-> [correct |-> 0, wrong |-> 0],
                      sessionDuration |-> 0, feedback |-> NoFeedback,
                      questions |-> <<>>, currentIndex |-> 0, step |-> "QUESTION",
                      score |-> 0, isFinished |-> FALSE, results |-> <<>>,
                      examDuration |-> 0, sessions |-> 0, answered |-> [i \in Ids |-> 0]]]

\* no bulk text at hand
NoText ==
  /\ textPhrase = <<>>
  /\ textLine = <<>>
  /\ parsedPhrase = <<>>
  /\ textOp = "init"

InitWith(deck) == InitStore(deck) /\ NoText

\* deck sizes of the initial decks: empty, the clamped cases, the [A..E]
\* scenario and a queue long enough for the long penalty to land unclamped
DeckSizes == {0, 1, 2, 3, 5, MaxCards}

Init ==
  \E n \in DeckSizes : \E progress \in Seeds :
     /\ n = 0 => progress = 0
     /\ InitWith(ImportedDeck(n, progress))

Next ==
  \/ StartStudy
  \/ handleKnow
  \/ handleDontKnow
  \/ handleVerdict
  \/ handleNext
  \/ handleDeletePhrase
  \/ studyTick
  \/ handleExit

Spec == Init /\ [][Next]_vars

\* study and exam sessions on the small decks
AppDeckSizes == 0..MaxAppCards

InitApp ==
  \E n \in AppDeckSizes : \E progress \in Seeds :
     /\ n = 0 => progress = 0
     /\ InitWith(ImportedDeck(n, progress))

NextApp ==
  \/ StartStudy
  \/ handleKnow
  \/ handleDontKnow
  \/ handleVerdict
  \/ handleNext
  \/ handleDeletePhrase
  \/ studyTick
  \/ handleExit
  \/ startExam
  \/ examHandleReveal
  \/ examHandleVerdict
  \/ examTick
  \/ examHandleExit

SpecApp == InitApp /\ [][NextApp]_vars

\* deck management (import, merge, editor) interleaved with study and exam
\* sessions
NextEdit ==
  \/ openImporter
  \/ handleManualImport
  \/ importerBack
  \/ performMerge
  \/ handleEditDeck
  \/ confirmDeletePhrase
  \/ handleAddPhrase
  \/ confirmBatchSave
  \/ editorBack
  \/ StartStudy
  \/ handleKnow
  \/ handleDontKnow
  \/ handleVerdict
  \/ handleNext
  \/ handleDeletePhrase
  \/ handleExit
  \/ startExam
  \/ examHandleReveal
  \/ examHandleVerdict
  \/ examHandleExit

\* the decks the deck-management behaviours start from
EditDeckSizes == {0, 2}

InitEdit == \E n \in EditDeckSizes : InitWith(ImportedDeck(n, 0))

SpecEdit == InitEdit /\ [][NextEdit]_vars

\* Decks as the load effect (localStorage) or a restored backup hand them to
\* the app: neither checks the queue against the card list.  The stored deck
\* has the cards 1 and 2 and a queue over the ids 1, 2 and 3; no card has id 3.
StoredQueues ==
  {q \in UNION {[1..k -> 1..3] : k \in 0..3} : \A i, j \in 1..Len(q) : q[i] = q[j] => i = j}

\* d => ({...d, phrases: d.phrases || [], queue: d.queue || [], stats: ...})
LoadedDeck(storedQueue) ==
  [id |-> TheDeck,
   phrases |-> [i \in 1..2 |-> NewPhrase(i, 0)],
   queue |-> storedQueue,
   stats |-> [totalStudyTimeSeconds |-> 0, totalReviewCount |-> 0]]

InitLoad == \E q \in StoredQueues : InitWith(LoadedDeck(q))

\* study sessions on a loaded deck
SpecLoad == InitLoad /\ [][Next]_vars

\* ---------------------------------------------------------------- bulk text
\* A line of bulk text is the sequence of the parts line.split('|').map(trim)
\* finds in it.  A text field of a card (english, chinese, note) is the
\* sequence of its own parts: one more than it has '|' characters, which no
\* edit form keeps out of a field.
TextPieces == {"w", "7"}

TextFields == UNION {[1..k -> TextPieces] : k \in 1..(MaxBars + 1)}

\* the numbers written and read here
Numbers == -9..9

\* parseInt(s): <<n>> for the decimal numeral of n, <<>> for NaN
ParseInt(s) ==
  IF \E n \in Numbers : ToString(n) = s
  THEN <<CHOOSE n \in Numbers : ToString(n) = s>>
  ELSE <<>>

\* the fields both parsers read from the parts of a line: parts[0] as the
\* english, parseInt(parts[3]) as the progress, parseInt(parts[4]) as the position
SplitLine(parts) ==
  TextLine(Len(parts), parts[1],
           IF Len(parts) >= 4 /\ ParseInt(parts[4]) # <<>> THEN ParseInt(parts[4])[1] ELSE 0,
           IF Len(parts) >= 5 THEN ParseInt(parts[5]) ELSE NoPosition)

\* `${p.english} | ${p.chinese} | ${note} | ${progress} | ${idx}`, as the
\* parts a split finds in it
ExportLine(p, idx) ==
  p.english \o p.chinese \o p.note \o <<ToString(ExportProgress(p)), ToString(idx)>>

\* the cards whose line is written
TextPhrases ==
  {[id |-> 1, english |-> e, chinese |-> c, note |-> n,
    consecutiveCorrect |-> cc, consecutiveWrong |-> cw, totalReviews |-> cc + cw,
    lastReviewedAt |-> Undefined] :
     e \in TextFields, c \in TextFields, n \in TextFields,
     cc \in 0..MaxProgress, cw \in 0..MaxProgress}

\* what a user types as the fourth and fifth part of a line
TypedParts == {"", "w"} \cup {ToString(n) : n \in (0 - MaxProgress)..MaxProgress}

\* typed lines of one to five parts
TypedLines ==
  {<<"w">>, <<"w", "w">>, <<"w", "w", "w">>}
    \cup {<<"w", "w", "w", p>> : p \in TypedParts}
    \cup {<<"w", "w", "w", p, q>> : p \in TypedParts, q \in TypedParts}

storeVars == <<appVars, studyVars, examVars, histVars, editorVars, last, calls>>

\* openBatchModal: setBatchText(generateBatchText()), the line of the card at
\* place idx
generateBatchText ==
  /\ textOp = "init" /\ textPhrase # <<>>
  /\ \E idx \in 0..1 : textLine' = ExportLine(textPhrase[1], idx)
  /\ textOp' = "generateBatchText"
  /\ UNCHANGED <<textPhrase, parsedPhrase>>
  /\ UNCHANGED storeVars

\* confirmBatchSave on the text as written: the line updates the card when
\* its first part is the card's english, and makes a new card otherwise
confirmBatchSaveLine ==
  LET items == Flatten(ParseLines(<<SplitLine(textLine)>>))
      existing == textPhrase[1]
  IN
  /\ textOp = "generateBatchText"
  /\ parsedPhrase' =
        IF items = <<>> THEN <<>>
        ELSE IF existing.english = <<items[1].eng>>
        THEN <<BatchUpdatedPhrase(existing, items[1])>>
        ELSE <<ItemPhrase(existing.id + 1, items[1])>>
  /\ textOp' = "confirmBatchSave"
  /\ UNCHANGED <<textPhrase, textLine>>
  /\ UNCHANGED storeVars

\* Importer.handleManualImport on a typed line
handleManualImportLine ==
  LET items == Flatten(ParseLines(<<SplitLine(textLine)>>))
  IN
  /\ textOp = "init" /\ textPhrase = <<>>
  /\ parsedPhrase' = IF items = <<>> THEN <<>> ELSE <<ItemPhrase(1, items[1])>>
  /\ textOp' = "handleManualImport"
  /\ UNCHANGED <<textPhrase, textLine>>
  /\ UNCHANGED storeVars

\* a card with no bulk text yet, or a typed line with no card
InitText ==
  /\ InitStore(NewDeck(TheDeck, <<>>))
  /\ parsedPhrase = <<>>
  /\ textOp = "init"
  /\ \/ textPhrase \in {<<p>> : p \in TextPhrases} /\ textLine = <<>>
     \/ textPhrase = <<>> /\ textLine \in TypedLines

NextText ==
  \/ generateBatchText
  \/ confirmBatchSaveLine
  \/ handleManualImportLine

\* writing and reading lines of bulk text
SpecText == InitText /\ [][NextText]_vars

\* ------------------------------------------------------ endless study session
\* A study session that never ends.  The statistics that grow with every
\* answer and do not feed the scheduler (totalReviews, the review counts of
\* the stats store, sessionStats, the answer history) are held at MaxStreak
\* once they reach it, and an answer is taken only while its streak stays
\* within MaxStreak, so that the session has finitely many states.
Sat(n) == IF n > MaxStreak THEN MaxStreak ELSE n

SatPhrases(phrases) ==
  [i \in 1..Len(phrases) |-> [phrases[i] EXCEPT !.totalReviews = Sat(@)]]

SatStats(st) ==
  [st EXCEPT !.totalReviewCount = Sat(@),
             !.daily.reviewCount = Sat(@),
             !.daily.correctCount = Sat(@),
             !.daily.wrongCount = Sat(@)]

\* the streak the answer would extend is still below MaxStreak
StreakBelowCap(isCorrect) ==
  LET p == PhraseOf(decks[activeDeckId].phrases, currentPhraseId)
  IN IF isCorrect THEN p.consecutiveCorrect < MaxStreak ELSE p.consecutiveWrong < MaxStreak

\* the body of handleDontKnow and handleVerdict on a card in view:
\* calculateResult with its onReview, the deck write-back, the session state
AnswerEndless(isCorrect, nextState) ==
  LET deck == decks[activeDeckId]
      r == calculateResult(deck, currentPhraseId, queue, isCorrect)
      written == [deck EXCEPT !.phrases = SatPhrases(r.updatedPhrases), !.queue = r.nextQueue]
  IN
  /\ CardShown
  /\ StreakBelowCap(isCorrect)
  /\ stats' = SatStats(ReviewStats(stats, currentPhraseId, isCorrect))
  /\ decks' = updateDeck(ReviewDecks(decks, activeDeckId), written)
  /\ answered' = [answered EXCEPT ![currentPhraseId] = Sat(@ + 1)]
  /\ queue' = r.nextQueue
  /\ sessionStats' = [correct |-> Sat(sessionStats.correct + (IF isCorrect THEN 1 ELSE 0)),
                      wrong |-> Sat(sessionStats.wrong + (IF isCorrect THEN 0 ELSE 1))]
  /\ feedback' = [set |-> TRUE, insertIndex |-> r.insertOffset, isCorrect |-> isCorrect]
  /\ cardState' = nextState
  /\ calls' = <<Call("onReview", [id |-> currentPhraseId, isCorrect |-> isCorrect]),
                Call("onUpdateDeck", written)>>
  /\ UNCHANGED <<view, activeDeckId, currentPhraseId, sessionDuration, deleted>>
  /\ UNCHANGED examVars
  /\ UNCHANGED editorVars
  /\ UNCHANGED textVars
  /\ UNCHANGED sessions

\* "I don't know" in HIDDEN
handleDontKnowEndless ==
  /\ view = "STUDY" /\ cardState = "HIDDEN"
  /\ last' = Ran("handleDontKnow", FALSE)
  /\ AnswerEndless(FALSE, "MISSED")

\* a verdict in VERIFYING
handleVerdictEndless ==
  /\ view = "STUDY" /\ cardState = "VERIFYING"
  /\ \E isCorrect \in BOOLEAN :
       /\ last' = Ran("handleVerdict", isCorrect)
       /\ AnswerEndless(isCorrect, "REVIEWED")

InitLive == InitWith(ImportedDeck(LiveCards, 0))

\* answers and advances only: no deletion, no exit, no tick
NextLive ==
  \/ StartStudy
  \/ handleKnow
  \/ handleDontKnowEndless
  \/ handleVerdictEndless
  \/ handleNext

\* the session goes on for ever: some step is always taken
SpecLive == InitLive /\ [][NextLive]_vars /\ WF_vars(NextLive)

\* =================================================================== claims
\* helpers of the claims' formulas
StoredDeck == decks[TheDeck]

\* the last handler was a study answer that ran to its end
AnswerDone ==
  /\ last.op \in {"handleDontKnow", "handleVerdict"}
  /\ Len(calls) = 3

\* the id the last handler found as the current card
AnsweredId == last.pre.currentPhraseId

\* the answered card before and after the last handler
CardBefore == PhraseOf(last.pre.decks[TheDeck].phrases, AnsweredId)
CardAfter == PhraseOf(StoredDeck.phrases, AnsweredId)

\* the queue the last handler started from, without its head
Rest == Tail(last.pre.queue)

NoDuplicates(q) == \A i, j \in 1..Len(q) : q[i] = q[j] => i = j

\* the offset section 4.1 step 3 asks for, from the counters after the answer
WantedOffset ==
  IF last.isCorrect
  THEN 2 ^ (CardAfter.consecutiveCorrect + 1)
  ELSE IF CardAfter.consecutiveWrong % 3 = 0 THEN 10 ELSE 2

\* the offset calculateResult computed before clamping, as it ran
RequestedOffset == calls[2].arg.requested

\* C1 -- Queue integrity: a study answer on a duplicate-free queue whose head
\* is the current card yields a permutation of that queue: the rest in its
\* order plus the answered id exactly once, same length, nothing lost.
C1_QueueIntegrity ==
  (AnswerDone /\ NoDuplicates(last.pre.queue) /\ last.pre.queue # <<>>
     /\ Head(last.pre.queue) = AnsweredId)
  => /\ Len(queue) = Len(last.pre.queue)
     /\ \A id \in Ids : Count(queue, id) = Count(last.pre.queue, id)
     /\ Count(queue, AnsweredId) = 1
     /\ FilterOut(queue, AnsweredId) = Rest
     /\ NoDuplicates(queue)
     /\ StoredDeck.queue = queue

C1_Witness ==
  /\ AnswerDone
  /\ Len(last.pre.queue) >= 5
  /\ Head(last.pre.queue) = AnsweredId
  /\ queue[3] = AnsweredId

\* C4 -- Wrong-answer offset: after a wrong answer the requested offset is 10
\* exactly when consecutiveWrong after the increment is a positive multiple of
\* 3, and 2 otherwise; when the rest is long enough the card sits there.
C4_WrongOffset ==
  (AnswerDone /\ ~last.isCorrect)
  => /\ CardAfter.consecutiveWrong = CardBefore.consecutiveWrong + 1
     /\ RequestedOffset = 10 <=> (CardAfter.consecutiveWrong > 0
                                    /\ CardAfter.consecutiveWrong % 3 = 0)
     /\ RequestedOffset # 10 => RequestedOffset = 2
     /\ Len(Rest) >= RequestedOffset => IndexOf(queue, AnsweredId) = RequestedOffset
     /\ (CardBefore.consecutiveWrong = 0 /\ Len(last.pre.queue) >= 3)
          => IndexOf(queue, AnsweredId) = 2
     /\ (CardBefore.consecutiveWrong = 2 /\ Len(last.pre.queue) >= 11)
          => IndexOf(queue, AnsweredId) = 10

C4_Witness ==
  /\ AnswerDone /\ ~last.isCorrect
  /\ CardAfter.consecutiveWrong \in {3, 6}
  /\ Len(queue) >= 11
  /\ IndexOf(queue, AnsweredId) = 10

\* C5 -- Correct-answer offset: after a correct answer the requested offset is
\* 2^(c+1), c the consecutiveCorrect after the increment; from 0 it is 4, and
\* it is larger than the offset the previous correct answer of the streak got.
C5_CorrectOffset ==
  (AnswerDone /\ last.isCorrect)
  => /\ CardAfter.consecutiveCorrect = CardBefore.consecutiveCorrect + 1
     /\ RequestedOffset = 2 ^ (CardAfter.consecutiveCorrect + 1)
     /\ CardBefore.consecutiveCorrect >= 1
          => RequestedOffset > 2 ^ (CardBefore.consecutiveCorrect + 1)
     /\ Len(Rest) >= RequestedOffset => IndexOf(queue, AnsweredId) = RequestedOffset
     /\ (CardBefore.consecutiveCorrect = 0 /\ Len(last.pre.queue) >= 5)
          => IndexOf(queue, AnsweredId) = 4

C5_Witness ==
  /\ AnswerDone /\ last.isCorrect
  /\ CardBefore.consecutiveCorrect = 0
  /\ Len(queue) >= 6
  /\ queue[5] = AnsweredId

\* C6 -- Placement with clamping: the answered card ends at index
\* min(k, length(rest)) of the resulting queue, k the wanted offset;
\* [A,B,C,D,E] with A answered correctly from 0 yields [B,C,D,E,A].
C6_Placement ==
  AnswerDone
  => /\ IndexOf(queue, AnsweredId) = Min(WantedOffset, Len(Rest))
     /\ queue = SubSeq(Rest, 1, Min(WantedOffset, Len(Rest))) \o <<AnsweredId>>
                 \o SubSeq(Rest, Min(WantedOffset, Len(Rest)) + 1, Len(Rest))
     /\ (last.pre.queue = <<1, 2, 3, 4, 5>> /\ last.isCorrect
          /\ CardBefore.consecutiveCorrect = 0)
          => queue = <<2, 3, 4, 5, 1>>

C6_Witness ==
  /\ AnswerDone /\ last.isCorrect
  /\ last.pre.queue = <<1, 2, 3, 4, 5>>
  /\ CardBefore.consecutiveCorrect = 0
  /\ queue = <<2, 3, 4, 5, 1>>

\* C7 -- Reported offset: the insertion offset calculateResult returns (shown
\* as feedback) equals the index at which the answered card sits in the
\* resulting queue; on a length-1 queue it is 0.
C7_ReportedOffset ==
  AnswerDone
  => /\ feedback.set
     /\ feedback.insertIndex = IndexOf(queue, AnsweredId)
     /\ Len(last.pre.queue) = 1 => feedback.insertIndex = 0

\* the last handler was a study answer or an exam verdict that ran to its end
AnyAnswerDone ==
  /\ last.op \in {"handleDontKnow", "handleVerdict", "examHandleVerdict"}
  /\ calls # <<>>
  /\ calls[1].op = "onReview"
  /\ calls[Len(calls)].op = "onUpdateDeck"

\* the card id and the outcome of that answer
Given == calls[1].arg

\* the stored card with the given id, before and after the last handler
Before(id) == PhraseOf(last.pre.decks[TheDeck].phrases, id)
After(id) == PhraseOf(StoredDeck.phrases, id)

CardIds(deck) == {deck.phrases[i].id : i \in 1..Len(deck.phrases)}

\* C2 -- Counter exclusivity: right after every study answer and exam verdict
\* the answered card's incremented counter is non-zero and the other one is 0;
\* in every reachable state no card has both counters non-zero.
C2_CounterExclusivity ==
  /\ \A i \in 1..Len(StoredDeck.phrases) :
       ~(StoredDeck.phrases[i].consecutiveCorrect > 0
         /\ StoredDeck.phrases[i].consecutiveWrong > 0)
  /\ AnyAnswerDone
     => IF Given.isCorrect
        THEN /\ After(Given.id).consecutiveCorrect = Before(Given.id).consecutiveCorrect + 1
             /\ After(Given.id).consecutiveCorrect > 0
             /\ After(Given.id).consecutiveWrong = 0
        ELSE /\ After(Given.id).consecutiveWrong = Before(Given.id).consecutiveWrong + 1
             /\ After(Given.id).consecutiveWrong > 0
             /\ After(Given.id).consecutiveCorrect = 0

C2_Witness ==
  /\ AnyAnswerDone
  /\ last.op = "examHandleVerdict"
  /\ Given.isCorrect
  /\ Before(Given.id).consecutiveWrong = 3
  /\ After(Given.id).consecutiveCorrect = 1
  /\ After(Given.id).consecutiveWrong = 0

\* C3 -- Monotonic totalReviews: every study answer and exam verdict adds
\* exactly 1 to the answered card's totalReviews, whatever the outcome, and
\* leaves every other card's totalReviews alone; a card created with
\* totalReviews 0 (every card but the seeded first one) has totalReviews equal
\* to the number of answers it has received.
C3_TotalReviews ==
  /\ AnyAnswerDone
     => /\ CardIds(StoredDeck) = CardIds(last.pre.decks[TheDeck])
        /\ \A id \in CardIds(StoredDeck) :
             After(id).totalReviews
               = Before(id).totalReviews + (IF id = Given.id THEN 1 ELSE 0)
  /\ \A i \in 1..Len(StoredDeck.phrases) :
       StoredDeck.phrases[i].id # 1
       => StoredDeck.phrases[i].totalReviews = answered[StoredDeck.phrases[i].id]

C3_Witness ==
  /\ AnyAnswerDone
  /\ last.op = "handleDontKnow"
  /\ Given.id = 2
  /\ sessions = 2
  /\ stats.daily.reviewedPhraseIds = <<2, 1>>
  /\ sessionStats.correct + sessionStats.wrong = 2
  /\ answered[2] = 2
  /\ After(2).totalReviews = 2

\* the number of calls of op the last handler made
CallsOf(op) == Cardinality({i \in 1..Len(calls) : calls[i].op = op})

\* the last handler ran with a card presented (its current id names a card)
Presented ==
  /\ AnsweredId # NULL
  /\ FindPhrase(last.pre.decks[TheDeck].phrases, AnsweredId) # 0

\* C8 -- One answer, one scheduling: a don't-know is taken only in HIDDEN and
\* a verdict only in VERIFYING; on a presented card each makes exactly one
\* onReview, one calculateResult and one onUpdateDeck carrying the new counters
\* and queue, counts the card once and moves to MISSED resp. REVIEWED; from
\* MISSED and REVIEWED no answer is taken.
C8_OneAnswerOneScheduling ==
  /\ last.op = "handleDontKnow" => last.pre.cardState = "HIDDEN"
  /\ last.op = "handleVerdict" => last.pre.cardState = "VERIFYING"
  /\ (last.op \in {"handleDontKnow", "handleVerdict"} /\ Presented)
     => /\ Len(calls) = 3
        /\ CallsOf("onReview") = 1
        /\ CallsOf("calculateResult") = 1
        /\ CallsOf("onUpdateDeck") = 1
        /\ calls[1] = Call("onReview", [id |-> AnsweredId, isCorrect |-> last.isCorrect])
        /\ calls[3].op = "onUpdateDeck"
        /\ calls[3].arg.phrases = StoredDeck.phrases
        /\ calls[3].arg.queue = StoredDeck.queue
        /\ CardAfter.totalReviews = CardBefore.totalReviews + 1
        /\ last.isCorrect => CardAfter.consecutiveCorrect = CardBefore.consecutiveCorrect + 1
        /\ ~last.isCorrect => CardAfter.consecutiveWrong = CardBefore.consecutiveWrong + 1
        /\ answered[AnsweredId] = last.pre.answered[AnsweredId] + 1
        /\ cardState = IF last.op = "handleDontKnow" THEN "MISSED" ELSE "REVIEWED"
  /\ (last.pre.view = "STUDY" /\ last.pre.cardState \in {"MISSED", "REVIEWED"})
     => /\ last.op \in {"handleNext", "handleDeletePhrase", "studyTick", "handleExit"}
        /\ CallsOf("onReview") = 0
        /\ answered = last.pre.answered

C8_Witness ==
  /\ last.op = "handleVerdict" /\ Presented
  /\ cardState = "REVIEWED"
  /\ CallsOf("onUpdateDeck") = 1
  /\ answered[AnsweredId] = 2

\* the cards and the queue of a stored deck
Progress(deck) == [phrases |-> deck.phrases, queue |-> deck.queue]

\* C9 -- Write-back before presentation: the working queue of a study session
\* always equals the stored deck's queue; a completed answer has its counters
\* and queue in the stored deck when the handler ends; no later step of the
\* session other than an answer or a deletion changes them; and a card shown
\* in HIDDEN is the head of the stored queue.
C9_WriteBackBeforePresentation ==
  /\ view = "STUDY" => queue = decks[activeDeckId].queue
  /\ AnswerDone
     => /\ StoredDeck.queue = calls[3].arg.queue
        /\ StoredDeck.phrases = calls[3].arg.phrases
        /\ CardAfter.totalReviews = CardBefore.totalReviews + 1
        /\ CardAfter.lastReviewedAt = Timestamp
        /\ cardState \in {"MISSED", "REVIEWED"}
  /\ last.op \in {"handleNext", "handleKnow", "studyTick", "handleExit", "startStudy"}
     => Progress(StoredDeck) = Progress(last.pre.decks[TheDeck])
  /\ (view = "STUDY" /\ cardState = "HIDDEN" /\ currentPhraseId # NULL)
     => /\ StoredDeck.queue # <<>>
        /\ currentPhraseId = Head(StoredDeck.queue)

C9_Witness ==
  /\ view = "STUDY" /\ last.op = "handleNext" /\ cardState = "HIDDEN"
  /\ stats.totalReviewCount = 2
  /\ \E i \in 1..Len(StoredDeck.phrases) : StoredDeck.phrases[i].lastReviewedAt = Timestamp
  /\ currentPhraseId = Head(StoredDeck.queue)
  /\ StoredDeck.queue # [i \in 1..Len(StoredDeck.queue) |-> i]

\* C10 -- "I know this" in HIDDEN only moves the card to VERIFYING: no
\* scheduler run, no onReview, no write-back; counters, queue, stats and the
\* session's correct / wrong counts stay as they were.
C10_KnowOnlyReveals ==
  last.op = "handleKnow"
  => /\ last.pre.cardState = "HIDDEN"
     /\ cardState = "VERIFYING"
     /\ calls = <<>>
     /\ decks = last.pre.decks
     /\ stats = last.pre.stats
     /\ queue = last.pre.queue
     /\ currentPhraseId = last.pre.currentPhraseId
     /\ sessionStats = last.pre.sessionStats
     /\ sessionDuration = last.pre.sessionDuration
     /\ feedback = last.pre.feedback
     /\ answered = last.pre.answered

C10_Witness ==
  /\ last.op = "handleKnow" /\ Presented
  /\ cardState = "VERIFYING"
  /\ CardBefore.consecutiveWrong = 2
  /\ StoredDeck = last.pre.decks[TheDeck]

\* the empty screen of StudySession is rendered
EmptyScreen == view = "STUDY" /\ ~HasCurrentPhrase /\ Len(queue) = 0

\* C11 -- Advance: handleNext runs only in MISSED / REVIEWED; with a non-empty
\* queue it makes the head of the queue the last answer wrote (working and
\* stored) the current card in HIDDEN; with an empty queue the session has no
\* current card and shows the empty screen; and the card state leaves MISSED /
\* REVIEWED only by advance, deletion or exit.
C11_Advance ==
  /\ last.op = "handleNext"
     => /\ last.pre.cardState \in {"MISSED", "REVIEWED"}
        /\ queue = last.pre.queue
        /\ decks = last.pre.decks
        /\ IF last.pre.queue # <<>>
           THEN /\ currentPhraseId = Head(last.pre.queue)
                /\ currentPhraseId = Head(StoredDeck.queue)
                /\ cardState = "HIDDEN"
                /\ ~feedback.set
           ELSE /\ currentPhraseId = NULL
                /\ EmptyScreen
  /\ (last.pre.view = "STUDY" /\ last.pre.cardState \in {"MISSED", "REVIEWED"}
        /\ (cardState # last.pre.cardState \/ currentPhraseId # last.pre.currentPhraseId))
     => last.op \in {"handleNext", "handleDeletePhrase", "handleExit"}

C11_Witness ==
  /\ last.op = "handleNext"
  /\ last.pre.cardState = "REVIEWED"
  /\ Len(queue) >= 3
  /\ currentPhraseId = Head(queue)
  /\ currentPhraseId # last.pre.currentPhraseId
  /\ cardState = "HIDDEN"

\* the advance on an empty queue (after the last card was deleted in MISSED)
C11_EmptyAdvance ==
  /\ last.op = "handleNext"
  /\ last.pre.queue = <<>>
  /\ EmptyScreen

\* a precedes b in q (both present)
Precedes(q, a, b) ==
  /\ IndexOf(q, a) >= 0 /\ IndexOf(q, b) >= 0
  /\ IndexOf(q, a) < IndexOf(q, b)

\* q is p without id, the other entries in their order
Without(q, p, id) ==
  /\ Range(q) = Range(p) \ {id}
  /\ Len(q) = Len(p) - Count(p, id)
  /\ \A a, b \in Range(q) : Precedes(p, a, b) => Precedes(q, a, b)

\* C12 -- Deleting the current card, in any card state, removes it from the
\* card list, the working queue and the stored queue, keeps every other card
\* and the order of the other queue entries, and makes the new head of the
\* working queue the current card in HIDDEN, or shows the empty screen when
\* nothing is left.
C12_DeleteCurrent ==
  last.op = "handleDeletePhrase"
  => /\ Presented
     /\ AnsweredId \notin CardIds(StoredDeck)
     /\ CardIds(StoredDeck) = CardIds(last.pre.decks[TheDeck]) \ {AnsweredId}
     /\ \A id \in CardIds(StoredDeck) : After(id) = Before(id)
     /\ Len(StoredDeck.phrases) = Len(last.pre.decks[TheDeck].phrases) - 1
     /\ Without(queue, last.pre.queue, AnsweredId)
     /\ Without(StoredDeck.queue, last.pre.decks[TheDeck].queue, AnsweredId)
     /\ IF queue # <<>>
        THEN /\ currentPhraseId = Head(queue)
             /\ cardState = "HIDDEN"
             /\ CardShown
        ELSE /\ currentPhraseId = NULL
             /\ EmptyScreen

C12_Witness ==
  /\ last.op = "handleDeletePhrase"
  /\ last.pre.cardState = "REVIEWED"
  /\ IndexOf(last.pre.queue, AnsweredId) = 2
  /\ Len(queue) >= 4
  /\ cardState = "HIDDEN"
  /\ currentPhraseId = Head(queue)

\* C13 -- Deck referential invariant: in every deck every id in the queue is
\* the id of a card of the deck's card list, and the id of a deleted card is
\* in no queue.
C13_QueueReferential ==
  \A d \in DOMAIN decks :
     /\ Range(decks[d].queue) \subseteq CardIds(decks[d])
     /\ Range(decks[d].queue) \cap deleted = {}

C13_Witness ==
  /\ last.op = "examHandleVerdict" /\ AnyAnswerDone
  /\ edits >= 1
  /\ deleted # {}
  /\ Len(decks[activeDeckId].queue) >= 2
  /\ Range(decks[activeDeckId].queue) \subseteq CardIds(decks[activeDeckId])

\* C14 -- Queue duplicate-freedom: no deck's queue holds an id more than once.
C14_QueueNoDuplicates ==
  \A d \in DOMAIN decks : NoDuplicates(decks[d].queue)

\* the editor's card list is the edited deck's
EditorInSync == view = "EDIT_DECK" => editorPhrases = decks[activeDeckId].phrases

\* the study session's current card is in view and unanswered
Unanswered(st) ==
  /\ st.view = "STUDY"
  /\ st.cardState \in {"HIDDEN", "VERIFYING"}
  /\ st.currentPhraseId # NULL
  /\ FindPhrase(st.decks[TheDeck].phrases, st.currentPhraseId) # 0

C16_ExamImmutability ==
  (last.pre.view = "EXAM_SESSION" /\ view = "EXAM_SESSION")
  => /\ last.op \in {"examHandleReveal", "examHandleVerdict", "examTick"}
     /\ questions = last.pre.questions
     /\ \A i \in 1..Len(questions) :
          IndexOf(questions, questions[i]) = IndexOf(last.pre.questions, questions[i])

C16_Witness ==
  /\ last.op = "examHandleVerdict"
  /\ decks # last.pre.decks
  /\ Len(questions) = 2
  /\ currentIndex = 1
  /\ questions = last.pre.questions
  /\ questions # IdsOf(StoredDeck.phrases)

\* the question count the last startExam was given
RequestedCount == calls[1].arg.count

\* C17 -- Exam sampling: the question list of a started exam holds exactly
\* min(requestedCount, deckSize) cards, all of the deck and pairwise distinct.
C17_ExamSampling ==
  last.op = "startExam"
  => /\ Len(questions) = Min(RequestedCount, Len(decks[activeDeckId].phrases))
     /\ Range(questions) \subseteq CardIds(decks[activeDeckId])
     /\ NoDuplicates(questions)

\* the same for the counts that are not negative
C17_NonNegativeCounts ==
  (last.op = "startExam" /\ RequestedCount >= 0)
  => /\ Len(questions) = Min(RequestedCount, Len(decks[activeDeckId].phrases))
     /\ Range(questions) \subseteq CardIds(decks[activeDeckId])
     /\ NoDuplicates(questions)

\* the last handler was an exam verdict that ran to its end
VerdictDone == last.op = "examHandleVerdict" /\ Len(calls) = 2

\* the number of sampled questions that are done with
Done == IF isFinished THEN Len(questions) ELSE currentIndex

Counters(p) ==
  [consecutiveCorrect |-> p.consecutiveCorrect,
   consecutiveWrong |-> p.consecutiveWrong,
   totalReviews |-> p.totalReviews]

\* C19 -- Exam uses the scheduler's counter rule without re-queueing: on every
\* stored card and for both outcomes the exam's counter update gives the
\* counters the study answer's gives; a completed exam verdict left the card
\* with the counters a study answer would have, and the deck's queue as it
\* was; a completed study answer left the counters an exam verdict would have.
C19_ExamCountersNoRequeue ==
  /\ \A i \in 1..Len(StoredDeck.phrases) : \A correct \in BOOLEAN :
       Counters(ExamUpdatePhrase(StoredDeck.phrases[i], correct))
         = Counters(UpdatePhrase(StoredDeck.phrases[i], correct))
  /\ VerdictDone
     => /\ Counters(After(Given.id)) = Counters(UpdatePhrase(Before(Given.id), Given.isCorrect))
        /\ StoredDeck.queue = last.pre.decks[TheDeck].queue
        /\ \A id \in CardIds(StoredDeck) \ {Given.id} : After(id) = Before(id)
  /\ AnswerDone
     => Counters(CardAfter) = Counters(ExamUpdatePhrase(CardBefore, last.isCorrect))

C19_Witness ==
  /\ VerdictDone
  /\ ~Given.isCorrect
  /\ Before(Given.id).consecutiveCorrect = 2
  /\ After(Given.id).consecutiveCorrect = 0
  /\ After(Given.id).consecutiveWrong = 1
  /\ After(Given.id).totalReviews = 3
  /\ StoredDeck.queue = <<1, 2>>
  /\ stats.totalReviewCount = 1

\* C20 -- Exam results: an exam starts with no result and score 0; a verdict,
\* and nothing else, adds one result, and adds 1 to the score exactly when it
\* is a correct one; so in every exam state the score is the number of correct
\* verdicts recorded; a finished exam has one result per sampled question and
\* a score of at most their number; and the correct and wrong counts an exit
\* computes add up to the number of verdicts given.
C20_ExamResults ==
  /\ last.op = "startExam" => (results = <<>> /\ score = 0)
  /\ VerdictDone
     => /\ Len(results) = Len(last.pre.results) + 1
        /\ score = last.pre.score + (IF last.isCorrect THEN 1 ELSE 0)
        /\ results[Len(results)].correct = last.isCorrect
  /\ (last.pre.view = "EXAM_SESSION" /\ view = "EXAM_SESSION" /\ ~VerdictDone)
     => (results = last.pre.results /\ score = last.pre.score)
  /\ view = "EXAM_SESSION"
     => /\ score = Corrects(results)
        /\ score <= Len(results)
        /\ Len(results) = IF Len(questions) > 0 THEN Done ELSE 0
        /\ isFinished => (Len(results) = Len(questions) /\ score <= Len(questions))
  /\ last.op = "examHandleExit"
     => /\ ExitReport(last.pre.results).correct = last.pre.score
        /\ ExitReport(last.pre.results).correct + ExitReport(last.pre.results).wrong
             = Len(last.pre.results)
        /\ ExitReport(last.pre.results).answered
             = IF last.pre.isFinished THEN Len(last.pre.questions)
               ELSE last.pre.currentIndex

C20_Witness ==
  /\ last.op = "examHandleExit"
  /\ ~last.pre.isFinished
  /\ Len(last.pre.questions) = 2
  /\ ExitReport(last.pre.results) = [answered |-> 1, correct |-> 0, wrong |-> 1]
  /\ last.pre.score = 0

\* C21 -- onSessionComplete is emitted exactly once at every session exit,
\* study and exam, finished or early, with the session's elapsed seconds and
\* the correct / wrong counts of the answers given in the session.
C21_SessionCompleteOnce ==
  /\ last.op = "handleExit"
     => /\ CallsOf("onSessionComplete") = 1
        /\ calls[1] = Call("onSessionComplete",
                           [durationSeconds |-> last.pre.sessionDuration,
                            correctCount |-> last.pre.sessionStats.correct,
                            wrongCount |-> last.pre.sessionStats.wrong])
  /\ last.op = "examHandleExit"
     => /\ CallsOf("onSessionComplete") = 1
        /\ calls[1] = Call("onSessionComplete",
                           [durationSeconds |-> last.pre.examDuration,
                            correctCount |-> ExitReport(last.pre.results).correct,
                            wrongCount |-> ExitReport(last.pre.results).wrong])

\* a card of the active deck has this id
Resolvable(id) == id # NULL /\ FindPhrase(decks[activeDeckId].phrases, id) # 0

\* the last handler was a study answer that raised a TypeError on the
\* undefined updatedPhrase, after its onReview
StudyThrew ==
  /\ last.op \in {"handleDontKnow", "handleVerdict"}
  /\ Len(calls) = 2

\* C22 -- Unresolvable queue ids are skipped: whenever the working queue of a
\* study session holds the id of a card, a card is in view (an id without a
\* card is not waited on), and no answer action fails.
C22_UnresolvableSkipped ==
  /\ (view = "STUDY" /\ \E i \in 1..Len(queue) : Resolvable(queue[i]))
     => HasCurrentPhrase
  /\ ~StudyThrew

\* the session sits on the loading screen with a card waiting in the queue,
\* and an answer key has sent onReview for the missing card and thrown
C22_StuckAndThrew ==
  /\ view = "STUDY" /\ ~HasCurrentPhrase /\ Len(queue) > 0
  /\ \E i \in 1..Len(queue) : Resolvable(queue[i])
  /\ StudyThrew
  /\ stats.totalReviewCount = last.pre.stats.totalReviewCount + 1

\* the nothing-to-review state of a study session: no current id, no queue
NothingToReview(st) ==
  st.view = "STUDY" /\ st.currentPhraseId = NULL /\ Len(st.queue) = 0

\* C23 -- Study empty state: a study session whose queue is empty (from its
\* start, or by deleting its last card) has no current card and shows the
\* nothing-to-review screen; a handler run in that state other than the exit
\* sends no onReview and no onUpdateDeck, leaves the cards, the queues and the
\* answer counts alone and stays in that state; the exit leaves it.
C23_StudyEmptyState ==
  /\ (view = "STUDY" /\ Len(queue) = 0) => (currentPhraseId = NULL /\ EmptyScreen)
  /\ (NothingToReview(last.pre) /\ last.op # "handleExit")
     => /\ NothingToReview(Pre)
        /\ CallsOf("onReview") = 0
        /\ CallsOf("onUpdateDeck") = 0
        /\ StoredDeck.phrases = last.pre.decks[TheDeck].phrases
        /\ StoredDeck.queue = last.pre.decks[TheDeck].queue
        /\ stats.totalReviewCount = last.pre.stats.totalReviewCount
        /\ answered = last.pre.answered
        /\ sessionStats = last.pre.sessionStats
  /\ (NothingToReview(last.pre) /\ last.op = "handleExit") => view = "DASHBOARD"

\* a verdict key was pressed on the nothing-to-review screen reached by
\* deleting the last card
C23_Witness ==
  /\ last.op = "handleVerdict"
  /\ NothingToReview(last.pre)
  /\ EmptyScreen
  /\ deleted # {}

\* C24 -- Exam empty state: an exam session, also one that sampled no
\* question, offers the user an exit, and no reveal / verdict action throws on
\* a missing question.
C24_ExamEmptyState ==
  /\ view = "EXAM_SESSION" => ExamExitOffered
  /\ CallsOf("throw") = 0

\* an exam without questions sits on the loading screen, and a verdict key
\* after a reveal key has thrown on the undefined question
C24_LoadingAndThrew ==
  /\ view = "EXAM_SESSION" /\ Len(questions) = 0 /\ ~ExamExitOffered
  /\ last.op = "examHandleVerdict" /\ CallsOf("throw") = 1

\* the onReview calls of the last handler
Reviews == SelectSeq(calls, LAMBDA c : c.op = "onReview")

\* C25 -- Stats Store answer counting: a handler sends at most one onReview;
\* each onReview(cardId, isCorrect) adds exactly 1 to the global
\* totalReviewCount and to the daily reviewCount, and 1 to exactly one of the
\* daily correctCount / wrongCount (a handler without onReview changes none);
\* on a fresh day reviewCount = correctCount + wrongCount, and the daily
\* reviewedPhraseIds hold no id twice and exactly the ids answered.
C25_AnswerCounting ==
  LET d == stats.daily
      pd == last.pre.stats.daily
      n == Len(Reviews)
      right == IF n = 1 /\ Reviews[1].arg.isCorrect THEN 1 ELSE 0
  IN
  /\ n <= 1
  /\ stats.totalReviewCount = last.pre.stats.totalReviewCount + n
  /\ d.reviewCount = pd.reviewCount + n
  /\ d.correctCount = pd.correctCount + right
  /\ d.wrongCount = pd.wrongCount + (n - right)
  /\ d.reviewCount = d.correctCount + d.wrongCount
  /\ d.reviewCount = stats.totalReviewCount
  /\ NoDuplicates(d.reviewedPhraseIds)
  /\ Range(d.reviewedPhraseIds) = {id \in DOMAIN answered : answered[id] > 0}

\* an answer on a card that was already answered that day has been counted
C25_Witness ==
  /\ Len(Reviews) = 1
  /\ Reviews[1].arg.id \in Range(last.pre.stats.daily.reviewedPhraseIds)
  /\ stats.daily.reviewCount > Len(stats.daily.reviewedPhraseIds)
  /\ stats.daily.correctCount > 0 /\ stats.daily.wrongCount > 0

\* the progress the parsers read from the line at hand
LineProgress == SplitLine(textLine).progress

\* the card satisfies counter exclusivity
Exclusive(p) == p.consecutiveCorrect = 0 \/ p.consecutiveWrong = 0

\* the counters of the card built from the line are those its progress seeds
Seeded ==
  LET p == LineProgress
      c == parsedPhrase[1]
  IN /\ p > 0 => c.consecutiveCorrect = p /\ c.consecutiveWrong = 0
     /\ p < 0 => c.consecutiveWrong = 0 - p /\ c.consecutiveCorrect = 0
     /\ p = 0 => c.consecutiveCorrect = 0 /\ c.consecutiveWrong = 0

\* the card built from the written line has the counters of the card written
SameCounters ==
  /\ parsedPhrase # <<>>
  /\ parsedPhrase[1].consecutiveCorrect = textPhrase[1].consecutiveCorrect
  /\ parsedPhrase[1].consecutiveWrong = textPhrase[1].consecutiveWrong

\* C26 -- Import counter seeding: the card a line creates has consecutiveCorrect
\* = p and consecutiveWrong = 0 for progress p > 0, consecutiveWrong = |p| and
\* consecutiveCorrect = 0 for p < 0, both 0 for absent or 0 progress; the line
\* written for a card that satisfies counter exclusivity is read back with the
\* same two counters.
C26_CounterSeeding ==
  /\ (textOp \in {"handleManualImport", "confirmBatchSave"} /\ parsedPhrase # <<>>) => Seeded
  /\ (textOp = "confirmBatchSave" /\ Exclusive(textPhrase[1])) => SameCounters

\* the seeding half of C26 on its own
C26_Seeding ==
  (textOp \in {"handleManualImport", "confirmBatchSave"} /\ parsedPhrase # <<>>) => Seeded

\* the round trip of C26 for cards whose text fields hold no '|'
C26_RoundTripWithoutBars ==
  (/\ textOp = "confirmBatchSave"
   /\ Exclusive(textPhrase[1])
   /\ Len(textPhrase[1].english) = 1
   /\ Len(textPhrase[1].chinese) = 1
   /\ Len(textPhrase[1].note) = 1) => SameCounters

\* a card with a streak and a '|' in its note was written and read back with
\* both counters 0
C26_CountersLost ==
  /\ textOp = "confirmBatchSave"
  /\ textPhrase[1].consecutiveCorrect = MaxProgress /\ textPhrase[1].consecutiveWrong = 0
  /\ Len(textPhrase[1].english) = 1 /\ Len(textPhrase[1].chinese) = 1
  /\ Len(textPhrase[1].note) = 2
  /\ parsedPhrase[1].id = textPhrase[1].id
  /\ parsedPhrase[1].consecutiveCorrect = 0 /\ parsedPhrase[1].consecutiveWrong = 0

\* the last handler built a queue from bulk text
TextSaved == last.op \in {"handleManualImport", "confirmBatchSave"}

\* the parsed lines before and after the sort of the last handler, and the
\* keys of the cards the editor held
Sorting == calls[Len(calls)].arg

\* the deck the last handler built from the text
BuiltDeck ==
  IF last.op = "handleManualImport" THEN decks[Cardinality(DOMAIN decks)]
  ELSE decks[activeDeckId]

\* the queue of the built deck holds the cards of the sorted lines, in order
QueueOfLines ==
  LET s == Sorting.sorted
  IN /\ Len(BuiltDeck.queue) = Len(s)
     /\ Len(BuiltDeck.phrases) = Len(s)
     /\ \A i \in 1..Len(s) :
          /\ BuiltDeck.phrases[i].id = BuiltDeck.queue[i]
          /\ BuiltDeck.phrases[i].english = s[i].eng
     /\ {s[i].originalIndex : i \in 1..Len(s)}
          = {Sorting.lines[i].originalIndex : i \in 1..Len(Sorting.lines)}

\* explicit positions come first, in ascending order
PositionsAscend ==
  LET s == Sorting.sorted
  IN \A i, j \in 1..Len(s) :
       i < j => /\ s[j].position # NoPosition => s[i].position # NoPosition
                /\ (s[i].position # NoPosition /\ s[j].position # NoPosition)
                     => s[i].position[1] <= s[j].position[1]

\* the line matches a card the editor held
IsOld(item) == Key(item.eng) \in Sorting.keys

\* C27 -- Import queue placement (as stated): in the queue built from bulk
\* text, by the Importer and by the batch save alike, lines with an explicit
\* position precede lines without one, explicit positions ascend, and lines
\* with equal positions, and lines without one, keep their line order.
C27_QueuePlacement ==
  TextSaved =>
    /\ QueueOfLines
    /\ PositionsAscend
    /\ \A i, j \in 1..Len(Sorting.sorted) :
         (i < j /\ Sorting.sorted[i].position = Sorting.sorted[j].position)
           => Sorting.sorted[i].originalIndex < Sorting.sorted[j].originalIndex

\* C27 -- Import queue placement (amended): as above, but among lines with
\* equal explicit positions the batch save puts the lines of new cards ahead
\* of the lines that match a card of the deck, and keeps the line order
\* within each of the two groups; the Importer, where every line is new, and
\* lines without a position keep their line order.
C27_QueuePlacementNewFirst ==
  TextSaved =>
    /\ QueueOfLines
    /\ PositionsAscend
    /\ \A i, j \in 1..Len(Sorting.sorted) :
         LET a == Sorting.sorted[i]
             b == Sorting.sorted[j]
         IN (i < j /\ a.position = b.position)
              => IF a.position # NoPosition /\ IsOld(a) # IsOld(b)
                 THEN ~IsOld(a) /\ IsOld(b)
                 ELSE a.originalIndex < b.originalIndex

\* a batch save put the line of a new card ahead of an earlier line with the
\* same position that matches a card of the deck
C27_Witness ==
  /\ last.op = "confirmBatchSave"
  /\ \E i, j \in 1..Len(Sorting.sorted) :
       /\ i < j
       /\ Sorting.sorted[i].position = Sorting.sorted[j].position
       /\ Sorting.sorted[i].position # NoPosition
       /\ Sorting.sorted[i].originalIndex > Sorting.sorted[j].originalIndex
       /\ BuiltDeck.queue[i] > BuiltDeck.queue[j]

\* every card of every deck
AllPhrases == UNION {Range(decks[d].phrases) : d \in DOMAIN decks}

\* C28 -- lastReviewedAt is absent until first review: a card carries a
\* lastReviewedAt only if its id has received at least one study or exam
\* answer; in particular the cards a manual add, an import or a merge has just
\* created carry none.
C28_NoTimestampBeforeReview ==
  \A p \in AllPhrases : p.lastReviewedAt # Undefined => answered[p.id] > 0

\* a merge has copied a reviewed card: the copy has a new id, counters 0, no
\* answer, and the lastReviewedAt of the card it was copied from
C28_MergedTimestamp ==
  /\ last.op = "performMerge"
  /\ \E p \in AllPhrases :
       /\ p.lastReviewedAt # Undefined
       /\ answered[p.id] = 0
       /\ p.totalReviews = 0 /\ p.consecutiveCorrect = 0 /\ p.consecutiveWrong = 0

\* the elapsed seconds of the running session, now and before the last handler
Elapsed == IF view = "STUDY" THEN sessionDuration ELSE examDuration
ElapsedBefore == IF view = "STUDY" THEN last.pre.sessionDuration ELSE last.pre.examDuration

\* the last handler was a timer tick
Ticked == last.op \in {"studyTick", "examTick"}

\* the last handler ran in the session that is still running
SameSession == view \in {"STUDY", "EXAM_SESSION"} /\ last.pre.view = view

\* C29 -- Timer accounting: a tick calls onTimeUpdate(1) exactly once and adds
\* exactly 1 to the session's elapsed seconds and to the global, the daily and
\* the active deck's study time; no other handler calls onTimeUpdate or
\* changes any of the four within a session, and a session starts at 0: so
\* the session duration is the number of its ticks and each total has grown
\* by that number; a finished exam does not tick.
C29_TimerAccounting ==
  LET deckTime == StoredDeck.stats.totalStudyTimeSeconds
      deckTimeBefore == last.pre.decks[TheDeck].stats.totalStudyTimeSeconds
      n == IF Ticked THEN 1 ELSE 0
  IN
  /\ Ticked => calls = <<Call("onTimeUpdate", 1)>>
  /\ ~Ticked => CallsOf("onTimeUpdate") = 0
  /\ last.op = "examTick" => ~last.pre.isFinished
  /\ last.op \in {"startStudy", "startExam"} => Elapsed = 0
  /\ SameSession => Elapsed = ElapsedBefore + n
  /\ stats.totalStudyTimeSeconds = last.pre.stats.totalStudyTimeSeconds + n
  /\ stats.daily.studyTimeSeconds = last.pre.stats.daily.studyTimeSeconds + n
  /\ deckTime = deckTimeBefore + n
  /\ deckTime = stats.totalStudyTimeSeconds
  /\ stats.daily.studyTimeSeconds = stats.totalStudyTimeSeconds

\* a tick after an answer that followed an earlier tick of the same session
C29_Witness ==
  /\ last.op = "studyTick"
  /\ sessionDuration = 2
  /\ sessionStats.correct + sessionStats.wrong > 0
  /\ StoredDeck.stats.totalStudyTimeSeconds = 2

\* the last handler was a study answer or an exam verdict that ran to its end
AnswerProcessed == CallsOf("onReview") = 1 /\ CallsOf("onUpdateDeck") = 1

\* C30 -- Per-deck review count is not lost: after an answer in study or exam
\* mode has been fully processed (onReview, then onUpdateDeck), the stored
\* deck's stats.totalReviewCount is exactly 1 higher than before the answer,
\* and so equals the number of answers given on the deck.
C30_DeckReviewCount ==
  /\ AnswerProcessed
     => StoredDeck.stats.totalReviewCount
          = last.pre.decks[TheDeck].stats.totalReviewCount + 1
  /\ StoredDeck.stats.totalReviewCount = stats.totalReviewCount

\* two answers have been fully processed, the global count is 2 and the
\* deck's count is still 0
C30_CountLost ==
  /\ AnswerProcessed
  /\ stats.totalReviewCount = 2
  /\ StoredDeck.stats.totalReviewCount = 0

\* what the code does instead: a fully processed answer leaves the stored
\* deck's review count as it was
C30_DeckReviewCountUnchanged ==
  AnswerProcessed
    => StoredDeck.stats.totalReviewCount = last.pre.decks[TheDeck].stats.totalReviewCount

\* C31 -- No starvation: in a study session of answers and advances that
\* goes on for ever, every card of the deck is presented as the current card
\* again and again.
C31_NoStarvation ==
  \A id \in 1..LiveCards : []<>(view = "STUDY" /\ currentPhraseId = id)

\* the last card of the queue has never been reached: it is still last, still
\* unanswered, and every card ahead of it has been answered
C31_StillLast ==
  /\ view = "STUDY"
  /\ queue[Len(queue)] = LiveCards
  /\ answered[LiveCards] = 0
  /\ \A id \in 1..(LiveCards - 1) : answered[id] > 0

\* the last handler was an advance from an answered card
Advanced == last.op = "handleNext" /\ last.pre.cardState \in {"MISSED", "REVIEWED"}

C33_OrderPreservation ==
  AnswerDone =>
    /\ FilterOut(queue, AnsweredId) = FilterOut(last.pre.queue, AnsweredId)
    /\ \A c \in Range(last.pre.queue) \ {AnsweredId} :
         IndexOf(queue, c) =
           IndexOf(last.pre.queue, c)
             - (IF IndexOf(queue, AnsweredId) > IndexOf(queue, c) THEN 1 ELSE 0)

\* an answer has moved one card forward and left another card in its place
C33_Witness ==
  /\ AnswerDone
  /\ \E c, d \in Range(queue) \ {AnsweredId} :
       /\ IndexOf(queue, c) = IndexOf(last.pre.queue, c) - 1
       /\ IndexOf(queue, d) = IndexOf(last.pre.queue, d)
       /\ IndexOf(queue, c) < IndexOf(queue, AnsweredId)
       /\ IndexOf(queue, AnsweredId) < IndexOf(queue, d)

\* C34 -- Answering never drains the queue: every study answer and every
\* advance leaves the length of the working queue (and of the stored queue)
\* unchanged, so a session whose queue is non-empty reaches the empty screen
\* only by the deletion of a card; an empty screen with no card ever deleted
\* is that of a deck that never had a card.
C34_NeverDrains ==
  /\ AnswerDone =>
       /\ Len(queue) = Len(last.pre.queue)
       /\ Len(StoredDeck.queue) = Len(last.pre.decks[TheDeck].queue)
  /\ last.op = "handleNext" => Len(queue) = Len(last.pre.queue)
  /\ (last.pre.view = "STUDY" /\ Len(last.pre.queue) > 0 /\ EmptyScreen)
     => last.op = "handleDeletePhrase"
  /\ (EmptyScreen /\ deleted = {}) => StoredDeck.phrases = <<>>

\* a session that answered and advanced has reached the empty screen by deletion
C34_Witness ==
  /\ EmptyScreen
  /\ last.op = "handleDeletePhrase"
  /\ Len(last.pre.queue) = 1
  /\ sessionStats.correct + sessionStats.wrong > 0

\* a card with the four review fields of another card
WithReviewFieldsOf(p, q) ==
  [p EXCEPT !.consecutiveCorrect = q.consecutiveCorrect,
            !.consecutiveWrong = q.consecutiveWrong,
            !.totalReviews = q.totalReviews,
            !.lastReviewedAt = q.lastReviewedAt]

\* C35 -- Answer frame: a fully processed study answer or exam verdict changes,
\* in the stored deck, only consecutiveCorrect, consecutiveWrong, totalReviews
\* and lastReviewedAt of the answered card and (study only) the queue: the
\* card list keeps its length and order, every other card and every other
\* field of the answered card is the same, the deck keeps its id and its
\* stats.totalStudyTimeSeconds, every other deck is the same, and the time the
\* ticks have added to the deck is never lost.
C35_AnswerFrame ==
  /\ AnswerProcessed =>
       LET before == last.pre.decks[activeDeckId]
           after == decks[activeDeckId]
           id == Reviews[1].arg.id
       IN
       /\ after.id = before.id
       /\ after.stats.totalStudyTimeSeconds = before.stats.totalStudyTimeSeconds
       /\ Len(after.phrases) = Len(before.phrases)
       /\ \A i \in 1..Len(before.phrases) :
            IF before.phrases[i].id = id
            THEN WithReviewFieldsOf(after.phrases[i], before.phrases[i]) = before.phrases[i]
            ELSE after.phrases[i] = before.phrases[i]
       /\ last.op = "examHandleVerdict" => after.queue = before.queue
       /\ \A d \in DOMAIN decks \ {activeDeckId} : decks[d] = last.pre.decks[d]
       /\ DOMAIN decks = DOMAIN last.pre.decks
  /\ StoredDeck.stats.totalStudyTimeSeconds = stats.totalStudyTimeSeconds

\* a study answer on a deck of two cards has been processed after a tick
C35_Witness ==
  /\ AnswerProcessed
  /\ last.op \in {"handleDontKnow", "handleVerdict"}
  /\ Len(StoredDeck.phrases) = 2
  /\ StoredDeck.stats.totalStudyTimeSeconds > 0
  /\ StoredDeck.queue # last.pre.decks[TheDeck].queue

\* the last handler saved the batch text generateBatchText makes of the deck
\* as it was, unmodified
RoundTrip ==
  /\ last.op = "confirmBatchSave"
  /\ calls[2].arg.lines
       = Flatten(ParseLines(BatchTextOf(last.pre.decks[activeDeckId].phrases,
                                        last.pre.decks[activeDeckId].queue)))

\* the stored deck has the card ids, the counters and the queue order it had
\* before the last handler
SameCards ==
  LET before == last.pre.decks[activeDeckId]
      after == decks[activeDeckId]
  IN
  /\ Range(IdsOf(after.phrases)) = Range(IdsOf(before.phrases))
  /\ Len(after.phrases) = Len(before.phrases)
  /\ NoDuplicates(IdsOf(after.phrases))
  /\ \A i \in 1..Len(before.phrases) : \A j \in 1..Len(after.phrases) :
       after.phrases[j].id = before.phrases[i].id
         => /\ after.phrases[j].consecutiveCorrect = before.phrases[i].consecutiveCorrect
            /\ after.phrases[j].consecutiveWrong = before.phrases[i].consecutiveWrong
            /\ after.phrases[j].totalReviews = before.phrases[i].totalReviews
  /\ SelectSeq(after.queue, LAMBDA id : id \in Range(before.queue))
       = SelectSeq(before.queue, LAMBDA id : id \in Range(IdsOf(before.phrases)))

\* no two cards of the card list share an id or an English text up to case
DistinctKeys(phrases) ==
  \A i, j \in 1..Len(phrases) :
     i # j => /\ phrases[i].id # phrases[j].id
              /\ Key(phrases[i].english) # Key(phrases[j].english)

\* C36 -- Batch edit round trip: saving the batch text of a deck unmodified
\* leaves the deck with the same set of card ids, the same counters and
\* totalReviews for every card and the same queue order for the queued cards;
\* no card is lost, duplicated or given a new id, also when two cards share
\* the same English text up to case.
C36_BatchRoundTrip == RoundTrip => SameCards

\* the round trip of a deck of two cards, "1" in lower case and in capitals
\* under two ids, has stored the second card twice and lost the first
C36_CardLost ==
  LET before == last.pre.decks[activeDeckId]
      after == decks[activeDeckId]
  IN
  /\ RoundTrip
  /\ Len(before.phrases) = 2
  /\ before.phrases[1].id # before.phrases[2].id
  /\ Key(before.phrases[1].english) = Key(before.phrases[2].english)
  /\ IdsOf(after.phrases) = <<before.phrases[2].id, before.phrases[2].id>>
  /\ after.queue = <<before.phrases[2].id, before.phrases[2].id>>

\* what the code does keep: the round trip of a deck whose cards differ in id
\* and in English text up to case
C36_RoundTripDistinctKeys ==
  (RoundTrip /\ DistinctKeys(last.pre.decks[activeDeckId].phrases)) => SameCards

\* a deck of distinct cards with a reordered queue and a seeded counter has
\* made the round trip
C36_DistinctWitness ==
  /\ RoundTrip
  /\ DistinctKeys(last.pre.decks[activeDeckId].phrases)
  /\ Len(decks[activeDeckId].phrases) = 2
  /\ decks[activeDeckId].queue # <<1, 2>>
  /\ \E i \in 1..2 : decks[activeDeckId].phrases[i].totalReviews > 0

\* the ids the cards and the queues of the given decks hold
IdsIn(ds) ==
  UNION {Range(IdsOf(ds[d].phrases)) \cup Range(ds[d].queue) : d \in DOMAIN ds}

\* C37 -- Merge: merging source deck S into target deck T leaves S and every
\* other deck unchanged, keeps T's cards and T's queue as prefixes of the new
\* card list and queue, and appends to both exactly one new card per card of
\* S, in S's card-list order, each with the text of its source card, an id
\* that occurs nowhere else and consecutiveCorrect, consecutiveWrong and
\* totalReviews all 0.
C37_Merge ==
  last.op = "performMerge" =>
    LET source == last.pre.decks[calls[1].arg.source]
        before == last.pre.decks[calls[1].arg.target]
        after == decks[calls[1].arg.target]
        n == Len(source.phrases)
        np == Len(before.phrases)
        nq == Len(before.queue)
    IN
    /\ DOMAIN decks = DOMAIN last.pre.decks
    /\ \A d \in DOMAIN decks \ {calls[1].arg.target} : decks[d] = last.pre.decks[d]
    /\ after.id = before.id /\ after.stats = before.stats
    /\ Len(after.phrases) = np + n /\ Len(after.queue) = nq + n
    /\ SubSeq(after.phrases, 1, np) = before.phrases
    /\ SubSeq(after.queue, 1, nq) = before.queue
    /\ \A i \in 1..n :
         LET p == after.phrases[np + i]
         IN /\ after.queue[nq + i] = p.id
            /\ p.english = source.phrases[i].english
            /\ p.consecutiveCorrect = 0 /\ p.consecutiveWrong = 0 /\ p.totalReviews = 0
            /\ p.id \notin IdsIn(last.pre.decks) \cup deleted
            /\ \A j \in 1..n : j # i => after.phrases[np + j].id # p.id

\* a deck of two cards, one of them with a counter, has been merged into a
\* deck that had a card
C37_Witness ==
  /\ last.op = "performMerge"
  /\ Len(last.pre.decks[calls[1].arg.source].phrases) = 2
  /\ \E i \in 1..2 : last.pre.decks[calls[1].arg.source].phrases[i].totalReviews > 0
  /\ Len(last.pre.decks[calls[1].arg.target].phrases) = 1
  /\ Len(decks[calls[1].arg.target].queue) = 3

====
